---- MODULE Spec2Model ----
(***************************************************************************)
(* Distributed imaging pipeline: the image generator (producer) and the    *)
(* feature extractor (worker), each with its SubscriberMonitor thread, and *)
(* the data logger (sink). A behaviour is one run of one of the programs,  *)
(* from the point where its configuration is loaded; prog says which. The  *)
(* program "config" is the start of a stage: the environment file is       *)
(* loaded into an EnvLoader and the queue bound is derived from it. Three   *)
(* further programs follow one part of a stage in finer detail: "publish"  *)
(* is the generator's send gate against the monitor's event handlers,      *)
(* "receive" is the part-by-part reading of a multipart message by the     *)
(* extractor or the logger, and "persist" is the logger's path from the    *)
(* header fields to the raw file and the table row.                        *)
(***************************************************************************)
EXTENDS Integers, Sequences, FiniteSets, TLC

\* ------------------------------------------------------------ bounds
MaxFrames == 3        \* frames the producer builds / envelopes a stage receives
MaxDepth == 2         \* largest configured queue depth tried
MaxImages == 2        \* files found in the input directory
MaxLoops == 1         \* completed sweeps of the producer
MaxEvents == 2        \* socket-lifecycle events the monitor processes
MaxSendFails == 1     \* sends that fail
MaxConnectFails == 3  \* failed connects of a SUB socket
MaxLines == 2         \* lines of the environment file
MaxPeers == 2         \* subscribers connected to a publisher at once
MaxParts == 7         \* parts of one multipart message
MaxEnvelopes == 2     \* envelopes whose header fields the sink reads
MaxStampLen == 2      \* characters of a processed_timestamp

\* ------------------------------------------------------------ program constants
kDefaultQueueDepth == 100
kZmqRetryAttempts == 3
kConfigQueueDepth == 100   \* GeneratorConfig::queue_depth, default member value

VARIABLES
    prog,             \* which program runs: "generator", "extractor", "logger",
                      \* "config" for the configuration phase of a stage, or
                      \* "publish" for the emit step of a stage, followed read
                      \* by read, "receive" for the receive step of a stage,
                      \* followed part by part, or "persist" for the sink's
                      \* use of the header fields
    pc,               \* position of the main thread
    g_keep_running,   \* the shutdown flag
    run_once,         \* --once
    num_images,       \* images.size()
    max_queue_depth,  \* effective queue bound
    send_annotated,   \* worker: --annotated
    attempt,          \* bind / connect attempt number
    sub_count,        \* SubscriberMonitor::sub_count_
    stop_flag,        \* SubscriberMonitor::stop_flag_
    mon,              \* monitor thread: "idle", "running", "failed", "joined"
    n_up,             \* connected/accepted events processed since start()
    n_down,           \* disconnected/closed events processed since start()
    frame_id,         \* producer: frame counter
    loop_iteration,   \* producer: sweep counter
    idx,              \* producer: position in images (1-based)
    pending_frames,   \* producer: pending queue
    pending,          \* worker: pending queue
    processed,        \* worker: the frame held between processing and emit
    upstream_next,    \* worker: frame_id of the next upstream header
    produced,         \* worker: the frames that reached the emit step, in order
    emit_after_sub,   \* worker: a frame reached the emit step after a subscriber event
    sent,             \* envelopes put on the publisher socket, in order
    send_fails,       \* send calls that failed
    teardown,         \* stop/close/destroy events, in order
    exit_code,        \* -1 while running
    recv_kind,        \* worker, sink: what the receive of this iteration brought
    oversize,         \* worker: frame_id of every envelope that exceeded the size cap
    built,            \* producer: frame_id of every envelope built, in order
    bind_calls,       \* socket.bind calls made
    bound,            \* a bind call succeeded
    sweeps,           \* producer: sweeps over the file list started
    db_ready,         \* sink: directories, database, schema and statement are set up
    files,            \* sink: raw image files created
    annotated_files,  \* sink: annotated image files created
    rows,             \* sink: rows of the frames table, in insertion order
    envelope,         \* sink: the envelope being persisted
    log,              \* sink: what became of every envelope received, in order
    buffer,           \* config: the environment file, a sequence of lines
    values_,          \* config: EnvLoader::values_
    loads,            \* config: load_from_string calls made
    queue_depth,      \* config: AppConfig::generator.queue_depth
    peers,            \* publish: subscribers connected to the publisher socket
    event_queue,      \* publish: socket events the monitor thread has not read yet
    receiver,         \* receive: the stage that receives, "extractor" or "logger"
    stream,           \* receive: the parts waiting at the SUB socket, in order
    held,             \* receive: the parts read in this iteration of the loop
    accepted,         \* receive: for every envelope accepted, the position its
                      \* header part had in the message it came with
    fields,           \* persist: the header of the envelope being persisted and
                      \* the locals frame_id, loop_iteration and image_path
    disk,             \* persist: raw image files, each with the envelope whose
                      \* image it holds
    table             \* persist: rows of the frames table, in insertion order

vars == <<prog, pc, g_keep_running, run_once, num_images, max_queue_depth,
          send_annotated, attempt,
          sub_count, stop_flag, mon, n_up, n_down, frame_id, loop_iteration, idx,
          pending_frames, pending, processed, upstream_next, produced, emit_after_sub,
          sent, send_fails, teardown, exit_code, recv_kind, oversize, built, bind_calls,
          bound, sweeps,
          db_ready, files, annotated_files, rows, envelope, log,
          buffer, values_, loads, queue_depth, peers, event_queue,
          receiver, stream, held, accepted, fields, disk, table>>

monVars == <<sub_count, stop_flag, mon, n_up, n_down>>
envVars == <<buffer, values_, loads, queue_depth>>
pubVars == <<peers, event_queue>>
runVars == <<prog, run_once, num_images, max_queue_depth, send_annotated, envVars>>
rcvVars == <<receiver, stream, held, accepted>>
stoVars == <<fields, disk, table>>
cfgVars == <<prog, run_once, num_images, max_queue_depth, send_annotated, envVars,
             pubVars, rcvVars, stoVars>>
sinkVars == <<db_ready, files, annotated_files, rows, envelope, log>>
histVars == <<recv_kind, oversize, built, bind_calls, bound, sweeps>>
pipeVars == <<frame_id, loop_iteration, idx, pending_frames, pending, processed,
              upstream_next, produced, emit_after_sub, sent, send_fails>>

NoFrame == [frame_id |-> -1]

\* exit status of a process ended by std::terminate (SIGABRT): an exception left
\* main
Terminated == 134

\* ------------------------------------------------------------ helpers
\* effective queue bound from the configured value
EffectiveQueueDepth(cfg) == IF cfg > 0 THEN cfg ELSE kDefaultQueueDepth

\* SubscriberMonitor::has_subscriber
HasSubscriber == sub_count > 0

\* destructor of one local of main; live: the monitor pointer and the guard's
\* pointer are still set (both are cleared together on the normal shutdown path)
DestroyLocal(name, live) ==
    CASE name = "publisher" -> <<"publisher.close">>
      [] name = "subscriber" -> <<"subscriber.close">>
      [] name = "sink" -> <<"sink.close">>
      [] name = "context" -> <<"context.close">>
      [] name = "monitor_guard" -> IF live THEN <<"monitor.stop">> ELSE <<>>
      [] name = "monitor" -> IF live THEN <<"monitor.delete">> ELSE <<>>

RECURSIVE UnwindFrom(_, _, _)
UnwindFrom(locals, i, live) ==
    IF i = 0 THEN <<>>
    ELSE DestroyLocal(locals[i], live) \o UnwindFrom(locals, i - 1, live)

\* locals of main are destroyed in reverse order of declaration
Unwind(locals, live) == UnwindFrom(locals, Len(locals), live)

\* producer: locals of main in declaration order
GenLocals == <<"monitor", "monitor_guard", "context", "publisher">>

\* worker: locals of main in declaration order
ExtLocals == <<"context", "subscriber", "publisher", "monitor", "monitor_guard">>

\* ------------------------------------------------------------ configuration
\* A line of the environment file is a sequence of characters. G and F stand
\* for the key names IMAGE_GENERATOR_QUEUE_DEPTH and FEATURE_EXTRACTOR_QUEUE_DEPTH.
kGeneratorQueueKey == <<"G">>
kExtractorQueueKey == <<"F">>

\* the lines tried
Lines ==
    { <<>>,
      <<" ", "#", "G", "=", "2">>,
      <<"G", "=", "1">>,
      <<" ", "G", " ", "=", " ", "2", " ">>,
      <<"G", "=", "x">>,
      <<"G", "=", "0">>,
      <<"G", "=", "-", "1">>,
      <<"G", "=">>,
      <<"G", "=", "2", "x">>,
      <<"G">>,
      <<"=", "1">>,
      <<"F", "=", "2">>,
      <<"F", "=", "1", " ", "#", "x">>,
      <<"F", "=", "x">> }

\* the environment files tried
Buffers == UNION {[1..n -> Lines] : n \in 0..MaxLines}

\* std::isspace
isspace(c) == c = " "

IsDigit(c) == c \in {"0", "1", "2"}
DigitValue(c) == CASE c = "0" -> 0 [] c = "1" -> 1 [] c = "2" -> 2

RECURSIVE CommentOrEmptyFrom(_, _)
CommentOrEmptyFrom(line, i) ==
    IF i > Len(line) THEN TRUE
    ELSE IF line[i] = "#" THEN TRUE
    ELSE IF ~isspace(line[i]) THEN FALSE
    ELSE CommentOrEmptyFrom(line, i + 1)

\* is_comment_or_empty: the first character that is not white space decides
is_comment_or_empty(line) == CommentOrEmptyFrom(line, 1)

\* std::string::find: index of the first c, 0 for npos
RECURSIVE FindFrom(_, _, _)
FindFrom(line, c, i) ==
    IF i > Len(line) THEN 0
    ELSE IF line[i] = c THEN i
    ELSE FindFrom(line, c, i + 1)

find(line, c) == FindFrom(line, c, 1)

RECURSIVE TrimStart(_, _)
TrimStart(in, start) ==
    IF start <= Len(in) /\ isspace(in[start]) THEN TrimStart(in, start + 1) ELSE start

RECURSIVE TrimEnd(_, _, _)
TrimEnd(in, start, end) ==
    IF end >= start /\ isspace(in[end]) THEN TrimEnd(in, start, end - 1) ELSE end

\* EnvLoader::trim
trim(in) ==
    LET start == TrimStart(in, 1) IN SubSeq(in, start, TrimEnd(in, start, Len(in)))

\* digits of str from position i on, read into acc: <<value, digits read>>
RECURSIVE ReadDigits(_, _, _, _)
ReadDigits(str, i, acc, n) ==
    IF i <= Len(str) /\ IsDigit(str[i])
    THEN ReadDigits(str, i + 1, 10 * acc + DigitValue(str[i]), n + 1)
    ELSE <<acc, n>>

\* std::stoi: white space, an optional sign, then digits up to the first other
\* character; it throws when there is no digit
stoi(str) ==
    LET start == TrimStart(str, 1)
        signed == start <= Len(str) /\ str[start] \in {"-", "+"}
        first == IF signed THEN start + 1 ELSE start
        read == ReadDigits(str, first, 0, 0)
    IN  [throws |-> read[2] = 0,
         value |-> IF signed /\ str[start] = "-" THEN 0 - read[1] ELSE read[1]]

\* an EnvLoader without values
NoValues == [k \in {} |-> <<>>]

\* mutant of LoadLine: a key that is already stored keeps its value
LoadLine_KeepFirst(values, line) ==
    IF is_comment_or_empty(line) THEN values
    ELSE LET pos == find(line, "=") IN
         IF pos = 0 THEN values
         ELSE LET key == trim(SubSeq(line, 1, pos - 1))
                  value == trim(SubSeq(line, pos + 1, Len(line)))
              IN  IF key # <<>> /\ key \notin DOMAIN values
                  THEN (key :> value) @@ values
                  ELSE values

\* the body of the loop of load_from_string, for one line
LoadLine(values, line) ==
    IF is_comment_or_empty(line) THEN values
    ELSE LET pos == find(line, "=") IN
         IF pos = 0 THEN values
         ELSE LET key == trim(SubSeq(line, 1, pos - 1))
                  value == trim(SubSeq(line, pos + 1, Len(line)))
              IN  IF key # <<>> THEN (key :> value) @@ values ELSE values

RECURSIVE LoadFrom(_, _, _)
LoadFrom(values, buf, i) ==
    IF i > Len(buf) THEN values ELSE LoadFrom(LoadLine(values, buf[i]), buf, i + 1)

\* EnvLoader::load_from_string, on the values the loader already holds
load_from_string(values, buf) == LoadFrom(values, buf, 1)

\* to_int
to_int(env, key, fallback) ==
    IF key \in DOMAIN env
    THEN IF stoi(env[key]).throws THEN fallback ELSE stoi(env[key]).value
    ELSE fallback

\* load_app_config: cfg.generator.queue_depth
GeneratorQueueDepth(env) ==
    LET extractor_queue_fallback == to_int(env, kExtractorQueueKey, kConfigQueueDepth)
    IN  to_int(env, kGeneratorQueueKey, extractor_queue_fallback)

\* ------------------------------------------------------------ multipart messages
\* what the parts of one message can hold: "json" is text that parses as a JSON
\* object, "bytes" is an encoded image
Bodies == UNION {[1..n -> {"json", "bytes"}] : n \in 1..MaxParts}

\* a message as the socket hands it out: part by part, each but the last with the
\* more flag; pos is the position of the part in its message
Message(b) == [i \in 1..Len(b) |-> [body |-> b[i], pos |-> i, more |-> i < Len(b)]]

\* ------------------------------------------------------------ header fields
\* A counter of the producer (std::size_t, 64 bits) is the number
\* hi * 2^31 + lo with lo below 2^31.
kIntMax == 2147483647

U64(hi, lo) == [hi |-> hi, lo |-> lo]

\* the counter values tried: 0, 2^31 - 1, 2^31, 2^32 + 1
Counters == {U64(0, 0), U64(0, kIntMax), U64(1, 0), U64(2, 1)}

\* a member the object does not have
NoMember == U64(-1, -1)

\* json get<int>() of an unsigned number: static_cast<int>, the low 32 bits read
\* as a two's complement number
ToInt(v) == IF v.hi % 2 = 1 THEN (v.lo - kIntMax) - 1 ELSE v.lo

\* source.value(key, fallback) read as int: the fallback when the member is
\* missing
ValueInt(member, fallback) == IF member = NoMember THEN fallback ELSE ToInt(member)

\* the characters of a processed_timestamp
StampChars == {":", "_"}

Timestamps == [1..MaxStampLen -> StampChars]

\* std::isalnum || '-' || '_' || '.', with the letters of a timestamp
IsFilenameChar(ch) == IsDigit(ch) \/ ch \in {"T", "Z"} \/ ch \in {"-", "_", "."}

sanitize_filename(value) ==
    [i \in 1..Len(value) |-> IF IsFilenameChar(value[i]) THEN value[i] ELSE "_"]

\* the headers tried: "source" with frame_id and loop_iteration, left out or with
\* the value of the producer's counters, and processed_timestamp; the two
\* counters are equal, as they are when the producer's directory holds one image
Headers ==
    {[frame_id |-> c, loop_iteration |-> c, processed_timestamp |-> t] :
        c \in Counters \cup {NoMember}, t \in Timestamps}

\* image_path: raw_image_dir / frame_{max(frame_id, 0):06}_{sanitized stamp}.png;
\* the zero-padded number stands as the number it prints
RawImagePath(fid, processed_timestamp) ==
    [dir |-> "raw_image_dir", frame |-> IF fid > 0 THEN fid ELSE 0,
     stamp |-> sanitize_filename(processed_timestamp)]

NoFields == [header |-> <<>>, frame_id |-> -1, loop_iteration |-> 0, image_path |-> <<>>]

NoFiles == [path \in {} |-> 0]

\* ------------------------------------------------------------ initial state
Init ==
    /\ prog \in {"generator", "extractor", "logger", "config", "publish", "receive",
                "persist"}
    /\ pc = CASE prog = "generator" -> "collect"
              [] prog = "extractor" -> "connect"
              [] prog = "logger" -> "startup"
              [] prog = "config" -> "load"
              [] prog = "publish" -> "gate"
              [] prog = "receive" -> "recv_header"
              [] prog = "persist" -> "fields"
    /\ g_keep_running = TRUE
    /\ run_once \in (IF prog = "generator" THEN BOOLEAN ELSE {FALSE})
    /\ num_images \in (IF prog = "generator" THEN 0..MaxImages ELSE {0})
    /\ \E cfg \in (IF prog \in {"logger", "config", "publish", "receive", "persist"}
                   THEN {0}
                   ELSE 0..MaxDepth) :
         /\ max_queue_depth = EffectiveQueueDepth(cfg)
         \* --annotated is tried with the largest configured depth
         /\ send_annotated \in (IF prog = "extractor" /\ cfg = MaxDepth THEN BOOLEAN
                                ELSE {FALSE})
    /\ attempt = 1
    /\ sub_count = 0
    /\ stop_flag = FALSE
    /\ mon = IF prog = "publish" THEN "running" ELSE "idle"
    /\ n_up = 0
    /\ n_down = 0
    /\ frame_id = 0
    /\ loop_iteration = 0
    /\ idx = 1
    /\ pending_frames = <<>>
    /\ pending = <<>>
    /\ processed = NoFrame
    /\ upstream_next = 0
    /\ produced = <<>>
    /\ emit_after_sub = FALSE
    /\ sent = <<>>
    /\ send_fails = 0
    /\ teardown = <<>>
    /\ exit_code = -1
    /\ recv_kind = "none"
    /\ oversize = {}
    /\ built = <<>>
    /\ bind_calls = 0
    /\ bound = FALSE
    /\ sweeps = 0
    /\ db_ready = FALSE
    /\ files = {}
    /\ annotated_files = {}
    /\ rows = <<>>
    /\ envelope = [frame_id |-> -1, image |-> "bytes", annotated |-> "absent", saved |-> FALSE]
    /\ log = <<>>
    /\ buffer \in (IF prog = "config" THEN Buffers ELSE {<<>>})
    /\ values_ = NoValues
    /\ loads = 0
    /\ queue_depth = kConfigQueueDepth
    \* a subscriber that connected between bind and the monitor's init is there
    \* without an event
    /\ peers \in (IF prog = "publish" THEN 0..1 ELSE {0})
    /\ event_queue = <<>>
    /\ receiver \in (IF prog = "receive" THEN {"extractor", "logger"} ELSE {"none"})
    /\ stream \in (IF prog = "receive" THEN {Message(b) : b \in Bodies} ELSE {<<>>})
    /\ held = <<>>
    /\ accepted = <<>>
    /\ fields = NoFields
    /\ disk = NoFiles
    /\ table = <<>>

\* ------------------------------------------------------------ signals
\* handle_signal, once install_signal_handlers has run
HandleSignal ==
    /\ pc \notin {"load", "depth", "configured", "collect", "exited"}
    /\ prog # "publish" /\ prog # "receive" /\ prog # "persist"
    /\ g_keep_running
    /\ g_keep_running' = FALSE
    /\ UNCHANGED <<sinkVars, histVars>>
    /\ UNCHANGED <<cfgVars, pc, attempt, monVars, frame_id, loop_iteration, idx,
                   pending_frames, pending, processed, upstream_next, produced,
                   emit_after_sub, sent, send_fails, teardown, exit_code>>

\* ------------------------------------------------------------ SubscriberMonitor
mainVars == <<pc, attempt, frame_id, loop_iteration, idx, pending_frames, pending,
              processed, upstream_next, produced, emit_after_sub, sent, send_fails,
              teardown, exit_code>>

\* (in the publish phase the socket queues its events, see check_event)
MonitorThreadRuns ==
    mon = "running" /\ ~stop_flag /\ n_up + n_down < MaxEvents /\ prog # "publish"

on_event_connected ==
    /\ MonitorThreadRuns
    /\ sub_count' = sub_count + 1
    /\ n_up' = n_up + 1
    /\ UNCHANGED <<sinkVars, histVars>>
    /\ UNCHANGED <<cfgVars, g_keep_running, stop_flag, mon, n_down, mainVars>>

on_event_accepted ==
    /\ MonitorThreadRuns
    /\ sub_count' = sub_count + 1
    /\ n_up' = n_up + 1
    /\ UNCHANGED <<sinkVars, histVars>>
    /\ UNCHANGED <<cfgVars, g_keep_running, stop_flag, mon, n_down, mainVars>>

on_event_disconnected ==
    /\ MonitorThreadRuns
    /\ sub_count' = sub_count - 1
    /\ n_down' = n_down + 1
    /\ UNCHANGED <<sinkVars, histVars>>
    /\ UNCHANGED <<cfgVars, g_keep_running, stop_flag, mon, n_up, mainVars>>

\* mutant of on_event_closed: the handler counts up
on_event_closed_CountsUp ==
    /\ MonitorThreadRuns
    /\ sub_count' = sub_count + 1
    /\ n_down' = n_down + 1
    /\ UNCHANGED <<sinkVars, histVars>>
    /\ UNCHANGED <<cfgVars, g_keep_running, stop_flag, mon, n_up, mainVars>>

on_event_closed ==
    /\ MonitorThreadRuns
    /\ sub_count' = sub_count - 1
    /\ n_down' = n_down + 1
    /\ UNCHANGED <<sinkVars, histVars>>
    /\ UNCHANGED <<cfgVars, g_keep_running, stop_flag, mon, n_up, mainVars>>

\* SubscriberMonitor::start: reset the flags, launch the thread; init may throw,
\* and the thread then returns without processing any event
MonitorStart(next) ==
    /\ stop_flag' = FALSE
    /\ sub_count' = 0
    /\ n_up' = 0
    /\ n_down' = 0
    /\ mon' \in {"running", "failed"}
    /\ pc' = next

\* the state of the monitor thread after the events of a teardown sequence:
\* stop() sets the flag and joins
MonAfter(events, m) ==
    IF \E i \in 1..Len(events) : events[i] = "monitor.stop"
    THEN (IF m \in {"running", "failed"} THEN "joined" ELSE m)
    ELSE m

StopAfter(events, f) ==
    IF \E i \in 1..Len(events) : events[i] = "monitor.stop" THEN TRUE ELSE f

\* return from main with the given code: run the given explicit steps, then the
\* destructors of the locals
ReturnFromMain(code, explicit, locals, live) ==
    LET events == explicit \o Unwind(locals, live) IN
    /\ teardown' = teardown \o events
    /\ mon' = MonAfter(events, mon)
    /\ stop_flag' = StopAfter(events, stop_flag)
    /\ exit_code' = code
    /\ pc' = "exited"

\* ------------------------------------------------------------ producer
\* mutant of QueueFrame: the full queue is not trimmed
QueueFrame_NoEvict(q, f, depth) == Append(q, f)

\* pending_frames with one more frame, the oldest dropped when full
QueueFrame(q, f, depth) ==
    IF Len(q) >= depth THEN Append(Tail(q), f) ELSE Append(q, f)

\* the upstream header
Header(fid, loop) == [frame_id |-> fid, loop_iteration |-> loop]

\* mutant of GenCollect: the empty check is missing
GenCollect_NoCheck ==
    /\ prog = "generator" /\ pc = "collect"
    /\ pc' = "bind"
    /\ UNCHANGED <<monVars, teardown, exit_code>>
    /\ UNCHANGED <<sinkVars, histVars>>
    /\ UNCHANGED <<cfgVars, g_keep_running, attempt, frame_id, loop_iteration, idx,
                   pending_frames, pending, processed, upstream_next, produced,
                   emit_after_sub, sent, send_fails>>

\* collect_images and the empty check
GenCollect ==
    /\ prog = "generator" /\ pc = "collect"
    /\ IF num_images = 0
       THEN /\ ReturnFromMain(1, <<>>, <<"monitor", "monitor_guard">>, TRUE)
            /\ UNCHANGED <<sub_count, n_up, n_down>>
       ELSE /\ pc' = "bind"
            /\ UNCHANGED <<monVars, teardown, exit_code>>
    /\ UNCHANGED <<sinkVars, histVars>>
    /\ UNCHANGED <<cfgVars, g_keep_running, attempt, frame_id, loop_iteration, idx,
                   pending_frames, pending, processed, upstream_next, produced,
                   emit_after_sub, sent, send_fails>>

\* mutant of GenBind: one attempt more than kZmqRetryAttempts
GenBind_OneMore ==
    /\ prog = "generator" /\ pc = "bind"
    /\ \E ok \in BOOLEAN :
         IF ok
         THEN /\ pc' = "monstart"
              /\ bound' = TRUE
              /\ UNCHANGED <<attempt, monVars, teardown, exit_code>>
         ELSE /\ UNCHANGED bound
              /\ IF attempt = kZmqRetryAttempts + 1
                 THEN /\ ReturnFromMain(1, <<>>, GenLocals, TRUE)
                      /\ UNCHANGED <<attempt, sub_count, n_up, n_down>>
                 ELSE /\ attempt' = attempt + 1
                      /\ UNCHANGED <<pc, monVars, teardown, exit_code>>
    /\ bind_calls' = bind_calls + 1
    /\ UNCHANGED <<sinkVars, recv_kind, oversize, built, sweeps>>
    /\ UNCHANGED <<cfgVars, g_keep_running, frame_id, loop_iteration, idx, pending_frames,
                   pending, processed, upstream_next, produced, emit_after_sub, sent,
                   send_fails>>

\* bind_with_retry, one attempt
GenBind ==
    /\ prog = "generator" /\ pc = "bind"
    /\ \E ok \in BOOLEAN :
         IF ok
         THEN /\ pc' = "monstart"
              /\ bound' = TRUE
              /\ UNCHANGED <<attempt, monVars, teardown, exit_code>>
         ELSE /\ UNCHANGED bound
              /\ IF attempt = kZmqRetryAttempts
                 THEN /\ ReturnFromMain(1, <<>>, GenLocals, TRUE)
                      /\ UNCHANGED <<attempt, sub_count, n_up, n_down>>
                 ELSE /\ attempt' = attempt + 1
                      /\ UNCHANGED <<pc, monVars, teardown, exit_code>>
    /\ bind_calls' = bind_calls + 1
    /\ UNCHANGED <<sinkVars, recv_kind, oversize, built, sweeps>>
    /\ UNCHANGED <<cfgVars, g_keep_running, frame_id, loop_iteration, idx, pending_frames,
                   pending, processed, upstream_next, produced, emit_after_sub, sent,
                   send_fails>>

\* monitor->start(publisher)
GenMonitorStart ==
    /\ prog = "generator" /\ pc = "monstart"
    /\ MonitorStart("warmup")
    /\ UNCHANGED <<sinkVars, histVars>>
    /\ UNCHANGED <<cfgVars, g_keep_running, attempt, frame_id, loop_iteration, idx,
                   pending_frames, pending, processed, upstream_next, produced,
                   emit_after_sub, sent, send_fails, teardown, exit_code>>

\* start delay and the wait for a first subscriber (ends on a subscriber, on the
\* deadline or on shutdown)
GenWarmup ==
    /\ prog = "generator" /\ pc = "warmup"
    /\ pc' = "outer"
    /\ UNCHANGED <<sinkVars, histVars>>
    /\ UNCHANGED <<cfgVars, g_keep_running, attempt, monVars, frame_id, loop_iteration,
                   idx, pending_frames, pending, processed, upstream_next, produced,
                   emit_after_sub, sent, send_fails, teardown, exit_code>>

\* mutant of GenOuter: the frame counter restarts with every sweep
GenOuter_ResetsFrameId ==
    /\ prog = "generator" /\ pc = "outer"
    /\ pc' = IF ~g_keep_running THEN "shutdown"
             ELSE IF HasSubscriber /\ pending_frames # <<>> THEN "flush"
             ELSE "sweep"
    /\ idx' = 1
    /\ frame_id' = 0
    /\ sweeps' = IF ~g_keep_running \/ sweeps > MaxLoops + 1 THEN sweeps ELSE sweeps + 1
    /\ UNCHANGED <<sinkVars, recv_kind, oversize, built, bind_calls, bound>>
    /\ UNCHANGED <<cfgVars, g_keep_running, attempt, monVars, loop_iteration,
                   pending_frames, pending, processed, upstream_next, produced,
                   emit_after_sub, sent, send_fails, teardown, exit_code>>

\* mutant of GenOuter: the queue is not flushed
GenOuter_NoFlush ==
    /\ prog = "generator" /\ pc = "outer"
    /\ pc' = IF ~g_keep_running THEN "shutdown" ELSE "sweep"
    /\ idx' = 1
    /\ sweeps' = IF ~g_keep_running \/ sweeps > MaxLoops + 1 THEN sweeps ELSE sweeps + 1
    /\ UNCHANGED <<sinkVars, recv_kind, oversize, built, bind_calls, bound>>
    /\ UNCHANGED <<cfgVars, g_keep_running, attempt, monVars, frame_id, loop_iteration,
                   pending_frames, pending, processed, upstream_next, produced,
                   emit_after_sub, sent, send_fails, teardown, exit_code>>

\* head of the outer loop
GenOuter ==
    /\ prog = "generator" /\ pc = "outer"
    /\ pc' = IF ~g_keep_running THEN "shutdown"
             ELSE IF HasSubscriber /\ pending_frames # <<>> THEN "flush"
             ELSE "sweep"
    /\ idx' = 1
    /\ sweeps' = IF ~g_keep_running \/ sweeps > MaxLoops + 1 THEN sweeps ELSE sweeps + 1
    /\ UNCHANGED <<sinkVars, recv_kind, oversize, built, bind_calls, bound>>
    /\ UNCHANGED <<cfgVars, g_keep_running, attempt, monVars, frame_id, loop_iteration,
                   pending_frames, pending, processed, upstream_next, produced,
                   emit_after_sub, sent, send_fails, teardown, exit_code>>

\* one iteration of the flush loop: the front is popped, then sent
GenFlush ==
    /\ prog = "generator" /\ pc = "flush"
    /\ IF pending_frames # <<>> /\ HasSubscriber
       THEN /\ pending_frames' = Tail(pending_frames)
            /\ \E ok \in BOOLEAN :
                 IF ok
                 THEN /\ sent' = Append(sent, Head(pending_frames))
                      /\ UNCHANGED <<pc, send_fails>>
                 ELSE /\ send_fails < MaxSendFails
                      /\ send_fails' = send_fails + 1
                      /\ pc' = "sweep"
                      /\ UNCHANGED sent
       ELSE /\ pc' = "sweep"
            /\ UNCHANGED <<pending_frames, sent, send_fails>>
    /\ UNCHANGED <<sinkVars, histVars>>
    /\ UNCHANGED <<cfgVars, g_keep_running, attempt, monVars, frame_id, loop_iteration,
                   idx, pending, processed, upstream_next, produced, emit_after_sub,
                   teardown, exit_code>>

\* the backpressure gate for a frame that was built
GenGate ==
    LET f == Header(frame_id, loop_iteration) IN
    /\ built' = Append(built, f.frame_id)
    /\ IF ~HasSubscriber
       THEN /\ pending_frames' = QueueFrame(pending_frames, f, max_queue_depth)
            /\ frame_id' = frame_id + 1
            /\ idx' = idx + 1
            /\ UNCHANGED <<pc, sent, send_fails, monVars, teardown, exit_code>>
       ELSE \E ok \in BOOLEAN :
            IF ok
            THEN /\ sent' = Append(sent, f)
                 /\ frame_id' = frame_id + 1
                 /\ idx' = idx + 1
                 /\ UNCHANGED <<pc, pending_frames, send_fails, monVars, teardown,
                                exit_code>>
            ELSE /\ send_fails < MaxSendFails
                 /\ send_fails' = send_fails + 1
                 /\ ReturnFromMain(1, <<>>, GenLocals, TRUE)
                 /\ UNCHANGED <<pending_frames, sent, frame_id, idx, sub_count, n_up,
                                n_down>>

\* one iteration of the sweep over images; the sweeps after the first
\* MaxLoops + 1 are not followed file by file
GenSweep ==
    /\ prog = "generator" /\ pc = "sweep"
    /\ IF idx > num_images \/ ~g_keep_running \/ loop_iteration > MaxLoops
       THEN /\ pc' = "endsweep"
            /\ UNCHANGED <<monVars, frame_id, idx, pending_frames, sent, send_fails,
                           teardown, exit_code, built>>
       ELSE \E outcome \in {"decode_failed", "encode_failed", "too_large", "built"} :
              IF outcome # "built"
              THEN /\ idx' = idx + 1
                   /\ UNCHANGED <<pc, monVars, frame_id, pending_frames, sent,
                                  send_fails, teardown, exit_code, built>>
              ELSE /\ frame_id < MaxFrames
                   /\ GenGate
    /\ UNCHANGED <<sinkVars, recv_kind, oversize, bind_calls, bound, sweeps>>
    /\ UNCHANGED <<cfgVars, g_keep_running, attempt, loop_iteration, pending, processed,
                   upstream_next, produced, emit_after_sub>>

\* mutant of GenEndSweep: --once is not looked at
GenEndSweep_IgnoresOnce ==
    /\ prog = "generator" /\ pc = "endsweep"
    /\ loop_iteration' = IF loop_iteration > MaxLoops THEN loop_iteration
                         ELSE loop_iteration + 1
    /\ pc' = "outer"
    /\ UNCHANGED <<sinkVars, histVars>>
    /\ UNCHANGED <<cfgVars, g_keep_running, attempt, monVars, frame_id, idx,
                   pending_frames, pending, processed, upstream_next, produced,
                   emit_after_sub, sent, send_fails, teardown, exit_code>>

\* variant: the sweep counter is not incremented
GenEndSweep_NoIncrement ==
    /\ prog = "generator" /\ pc = "endsweep"
    /\ pc' = IF run_once THEN "shutdown" ELSE "outer"
    /\ UNCHANGED <<sinkVars, histVars>>
    /\ UNCHANGED <<cfgVars, g_keep_running, attempt, monVars, frame_id, loop_iteration,
                   idx, pending_frames, pending, processed, upstream_next, produced,
                   emit_after_sub, sent, send_fails, teardown, exit_code>>

\* after the sweep
GenEndSweep ==
    /\ prog = "generator" /\ pc = "endsweep"
    /\ IF run_once
       THEN pc' = "shutdown" /\ UNCHANGED loop_iteration
       ELSE /\ loop_iteration' = IF loop_iteration > MaxLoops THEN loop_iteration
                                  ELSE loop_iteration + 1
            /\ pc' = "outer"
    /\ UNCHANGED <<sinkVars, histVars>>
    /\ UNCHANGED <<cfgVars, g_keep_running, attempt, monVars, frame_id, idx,
                   pending_frames, pending, processed, upstream_next, produced,
                   emit_after_sub, sent, send_fails, teardown, exit_code>>

\* the shutdown sequence and return 0
GenShutdown ==
    /\ prog = "generator" /\ pc = "shutdown"
    /\ ReturnFromMain(0,
                      <<"monitor.stop", "monitor.delete", "publisher.close",
                        "context.close">>,
                      GenLocals, FALSE)
    /\ UNCHANGED <<sinkVars, histVars>>
    /\ UNCHANGED <<cfgVars, g_keep_running, attempt, sub_count, n_up, n_down, frame_id,
                   loop_iteration, idx, pending_frames, pending, processed, upstream_next,
                   produced, emit_after_sub, sent, send_fails>>

GenNext ==
    \/ GenCollect
    \/ GenBind
    \/ GenMonitorStart
    \/ GenWarmup
    \/ GenOuter
    \/ GenFlush
    \/ GenSweep
    \/ GenEndSweep
    \/ GenShutdown

\* ------------------------------------------------------------ worker
\* mutant of QueuePending: the new frame is dropped when the queue is full
QueuePending_DropNewest(q, f, depth) ==
    IF Len(q) >= depth THEN q ELSE Append(q, f)

\* pending with one more processed frame, the oldest dropped when full
QueuePending(q, f, depth) ==
    IF Len(q) >= depth THEN Append(Tail(q), f) ELSE Append(q, f)

\* mutant of ShouldQueue: the frame is queued whatever became of the send
ShouldQueue_Always(hasSub, sendOk) == TRUE

\* mutant of ShouldQueue: a failed send is not queued
ShouldQueue_NoSubOnly(hasSub, sendOk) == ~hasSub

\* the condition of the emit step: no subscriber, or the send failed
ShouldQueue(hasSub, sendOk) == ~hasSub \/ ~sendOk

\* the processed frame built from an upstream header
ProcessedFrame(fid, annotate) ==
    [frame_id |-> fid, annotated |-> IF annotate THEN "bytes" ELSE "empty"]

\* mutant of send_frame: the annotated part is always appended
send_frame_AlwaysFour(frame) ==
    <<[part |-> "header", frame_id |-> frame.frame_id],
      [part |-> "descriptors", frame_id |-> frame.frame_id],
      [part |-> "image", frame_id |-> frame.frame_id],
      [part |-> "annotated", frame_id |-> frame.frame_id]>>

\* send_frame: the multipart message built for a processed frame
send_frame(frame) ==
    <<[part |-> "header", frame_id |-> frame.frame_id],
      [part |-> "descriptors", frame_id |-> frame.frame_id],
      [part |-> "image", frame_id |-> frame.frame_id]>>
    \o (IF frame.annotated # "empty"
        THEN <<[part |-> "annotated", frame_id |-> frame.frame_id]>>
        ELSE <<>>)

\* mutant of ExtConnect: connect_with_retry with fatal_on_failure = true
ExtConnect_Fatal ==
    /\ prog = "extractor" /\ pc = "connect"
    /\ IF ~g_keep_running
       THEN /\ ReturnFromMain(1, <<>>, <<"context", "subscriber">>, TRUE)
            /\ UNCHANGED <<attempt, sub_count, n_up, n_down>>
       ELSE \E ok \in BOOLEAN :
              IF ok
              THEN /\ pc' = "bind"
                   /\ attempt' = 1
                   /\ UNCHANGED <<monVars, teardown, exit_code>>
              ELSE IF attempt >= kZmqRetryAttempts
                   THEN /\ ReturnFromMain(1, <<>>, <<"context", "subscriber">>, TRUE)
                        /\ UNCHANGED <<attempt, sub_count, n_up, n_down>>
                   ELSE /\ attempt' = attempt + 1
                        /\ UNCHANGED <<pc, monVars, teardown, exit_code>>
    /\ UNCHANGED <<sinkVars, histVars>>
    /\ UNCHANGED <<cfgVars, g_keep_running, frame_id, loop_iteration, idx, pending_frames,
                   pending, processed, upstream_next, produced, emit_after_sub, sent,
                   send_fails>>

\* connect_with_retry(subscriber, ..., fatal_on_failure = false), one pass of its loop
ExtConnect ==
    /\ prog = "extractor" /\ pc = "connect"
    /\ IF ~g_keep_running
       THEN /\ ReturnFromMain(1, <<>>, <<"context", "subscriber">>, TRUE)
            /\ UNCHANGED <<attempt, sub_count, n_up, n_down>>
       ELSE \E ok \in BOOLEAN :
              IF ok
              THEN /\ pc' = "bind"
                   /\ attempt' = 1
                   /\ UNCHANGED <<monVars, teardown, exit_code>>
              ELSE /\ attempt <= MaxConnectFails
                   /\ attempt' = attempt + 1
                   /\ UNCHANGED <<pc, monVars, teardown, exit_code>>
    /\ UNCHANGED <<sinkVars, histVars>>
    /\ UNCHANGED <<cfgVars, g_keep_running, frame_id, loop_iteration, idx, pending_frames,
                   pending, processed, upstream_next, produced, emit_after_sub, sent,
                   send_fails>>

\* bind_with_retry(publisher, ...), one attempt
ExtBind ==
    /\ prog = "extractor" /\ pc = "bind"
    /\ \E ok \in BOOLEAN :
         IF ok
         THEN /\ pc' = "monstart"
              /\ bound' = TRUE
              /\ UNCHANGED <<attempt, monVars, teardown, exit_code>>
         ELSE /\ UNCHANGED bound
              /\ IF attempt = kZmqRetryAttempts
                 THEN /\ ReturnFromMain(1, <<>>, ExtLocals, TRUE)
                      /\ UNCHANGED <<attempt, sub_count, n_up, n_down>>
                 ELSE /\ attempt' = attempt + 1
                      /\ UNCHANGED <<pc, monVars, teardown, exit_code>>
    /\ bind_calls' = bind_calls + 1
    /\ UNCHANGED <<sinkVars, recv_kind, oversize, built, sweeps>>
    /\ UNCHANGED <<cfgVars, g_keep_running, frame_id, loop_iteration, idx, pending_frames,
                   pending, processed, upstream_next, produced, emit_after_sub, sent,
                   send_fails>>

\* subscriber_monitor->start(publisher)
ExtMonitorStart ==
    /\ prog = "extractor" /\ pc = "monstart"
    /\ MonitorStart("loop")
    /\ UNCHANGED <<sinkVars, histVars>>
    /\ UNCHANGED <<cfgVars, g_keep_running, attempt, frame_id, loop_iteration, idx,
                   pending_frames, pending, processed, upstream_next, produced,
                   emit_after_sub, sent, send_fails, teardown, exit_code>>

\* mutant of ExtLoop: the loop does not look at the shutdown flag
ExtLoop_IgnoresFlag ==
    /\ prog = "extractor" /\ pc = "loop"
    /\ pc' = "flush"
    /\ recv_kind' = "none"
    /\ UNCHANGED <<sinkVars, oversize, built, bind_calls, bound, sweeps>>
    /\ UNCHANGED <<cfgVars, g_keep_running, attempt, monVars, frame_id, loop_iteration,
                   idx, pending_frames, pending, processed, upstream_next, produced,
                   emit_after_sub, sent, send_fails, teardown, exit_code>>

\* head of the receive loop
ExtLoop ==
    /\ prog = "extractor" /\ pc = "loop"
    /\ pc' = IF g_keep_running THEN "flush" ELSE "shutdown"
    /\ recv_kind' = "none"
    /\ UNCHANGED <<sinkVars, oversize, built, bind_calls, bound, sweeps>>
    /\ UNCHANGED <<cfgVars, g_keep_running, attempt, monVars, frame_id, loop_iteration,
                   idx, pending_frames, pending, processed, upstream_next, produced,
                   emit_after_sub, sent, send_fails, teardown, exit_code>>

\* mutant of ExtFlush: the queue is not flushed
ExtFlush_Never ==
    /\ prog = "extractor" /\ pc = "flush"
    /\ pc' = "recv"
    /\ UNCHANGED <<sinkVars, histVars>>
    /\ UNCHANGED <<cfgVars, g_keep_running, attempt, monVars, frame_id, loop_iteration,
                   idx, pending_frames, pending, processed, upstream_next, produced,
                   emit_after_sub, sent, send_fails, teardown, exit_code>>

\* one iteration of the flush loop: the front is sent, and popped if that succeeded
ExtFlush ==
    /\ prog = "extractor" /\ pc = "flush"
    /\ IF pending = <<>>
       THEN /\ pc' = "recv"
            /\ UNCHANGED <<pending, sent, send_fails>>
       ELSE IF ~HasSubscriber
            THEN /\ pc' = "recv"
                 /\ UNCHANGED <<pending, sent, send_fails>>
            ELSE \E ok \in BOOLEAN :
                   IF ok
                   THEN /\ sent' = Append(sent, Head(pending))
                        /\ pending' = Tail(pending)
                        /\ UNCHANGED <<pc, send_fails>>
                   ELSE /\ send_fails < MaxSendFails
                        /\ send_fails' = send_fails + 1
                        /\ pc' = "recv"
                        /\ UNCHANGED <<pending, sent>>
    /\ UNCHANGED <<sinkVars, histVars>>
    /\ UNCHANGED <<cfgVars, g_keep_running, attempt, monVars, frame_id, loop_iteration,
                   idx, pending_frames, processed, upstream_next, produced,
                   emit_after_sub, teardown, exit_code>>

\* what one pass of the worker's loop body can receive
ExtKinds == {"timeout", "recv_error", "no_payload_part", "missing_payload", "bad_json",
             "not_object", "bad_field", "empty_image", "undecodable", "too_large",
             "frame"}

\* mutant of ExtHandling: the size cap is not applied
ExtHandling_NoSizeCap(kind) ==
    CASE kind = "recv_error" -> "break"
      [] kind \in {"frame", "too_large"} -> "emit"
      [] kind \in {"empty_image", "undecodable"} -> "drop"
      [] kind \in {"not_object", "bad_field"} -> "throw"
      [] OTHER -> "continue"

\* what the loop body does with what it received: "continue" before a header was
\* read, "drop" for a continue after the header was read, "break", on to "emit",
\* or "throw" when source_header.value("frame_id", -1) throws: the header is JSON
\* but no object ("not_object"), or its frame_id is no number ("bad_field")
ExtHandling(kind) ==
    CASE kind = "recv_error" -> "break"
      [] kind = "frame" -> "emit"
      [] kind \in {"empty_image", "undecodable", "too_large"} -> "drop"
      [] kind \in {"not_object", "bad_field"} -> "throw"
      [] OTHER -> "continue"

\* receive one upstream message and process it up to the size cap
ExtRecv ==
    /\ prog = "extractor" /\ pc = "recv"
    /\ \E kind \in ExtKinds :
         /\ recv_kind' = kind
         /\ oversize' = IF kind = "too_large" /\ upstream_next < MaxFrames
                        THEN oversize \cup {upstream_next} ELSE oversize
         /\ CASE ExtHandling(kind) = "continue" ->
                /\ pc' = "loop"
                /\ UNCHANGED <<processed, upstream_next>>
           [] ExtHandling(kind) = "break" ->
                /\ pc' = "shutdown"
                /\ UNCHANGED <<processed, upstream_next>>
           [] ExtHandling(kind) = "emit" ->
                /\ upstream_next < MaxFrames
                /\ processed' = ProcessedFrame(upstream_next, send_annotated)
                /\ upstream_next' = upstream_next + 1
                /\ pc' = "emit"
           [] ExtHandling(kind) = "drop" ->
                /\ upstream_next < MaxFrames
                /\ upstream_next' = upstream_next + 1
                /\ pc' = "loop"
                /\ UNCHANGED processed
           [] ExtHandling(kind) = "throw" ->
                /\ pc' = "exited"
                /\ UNCHANGED <<processed, upstream_next>>
         /\ exit_code' = IF ExtHandling(kind) = "throw" THEN Terminated ELSE exit_code
    /\ UNCHANGED <<sinkVars, built, bind_calls, bound, sweeps>>
    /\ UNCHANGED <<cfgVars, g_keep_running, attempt, monVars, frame_id, loop_iteration,
                   idx, pending_frames, pending, produced, emit_after_sub, sent,
                   send_fails, teardown>>

\* emit with backpressure
ExtEmit ==
    /\ prog = "extractor" /\ pc = "emit"
    /\ IF ~HasSubscriber
       THEN /\ pending' = QueuePending(pending, processed, max_queue_depth)
            /\ UNCHANGED <<sent, send_fails>>
       ELSE \E ok \in BOOLEAN :
              /\ ~ok => send_fails < MaxSendFails
              /\ send_fails' = IF ok THEN send_fails ELSE send_fails + 1
              /\ sent' = IF ok THEN Append(sent, processed) ELSE sent
              /\ pending' = IF ShouldQueue(HasSubscriber, ok)
                            THEN QueuePending(pending, processed, max_queue_depth)
                            ELSE pending
    /\ processed' = NoFrame
    /\ produced' = Append(produced, processed)
    /\ emit_after_sub' = (emit_after_sub \/ n_up > 0)
    /\ pc' = "loop"
    /\ UNCHANGED <<sinkVars, histVars>>
    /\ UNCHANGED <<cfgVars, g_keep_running, attempt, monVars, frame_id, loop_iteration,
                   idx, pending_frames, upstream_next, teardown, exit_code>>

\* the shutdown sequence and return 0
ExtShutdown ==
    /\ prog = "extractor" /\ pc = "shutdown"
    /\ ReturnFromMain(0,
                      <<"monitor.stop", "monitor.delete", "publisher.close",
                        "subscriber.close", "context.close">>,
                      ExtLocals, FALSE)
    /\ UNCHANGED <<sinkVars, histVars>>
    /\ UNCHANGED <<cfgVars, g_keep_running, attempt, sub_count, n_up, n_down, frame_id,
                   loop_iteration, idx, pending_frames, pending, processed, upstream_next,
                   produced, emit_after_sub, sent, send_fails>>

ExtNext ==
    \/ ExtConnect
    \/ ExtBind
    \/ ExtMonitorStart
    \/ ExtLoop
    \/ ExtFlush
    \/ ExtRecv
    \/ ExtEmit
    \/ ExtShutdown

\* ------------------------------------------------------------ sink
\* sink: locals of main that own a resource, in declaration order
LogLocals == <<"context", "sink">>

Max0(n) == IF n > 0 THEN n ELSE 0

\* the raw image file of a frame
ImagePath(fid) == [dir |-> "raw_image_dir", frame |-> Max0(fid)]

\* the annotated image file of a frame
AnnotatedPath(fid) == [dir |-> "annotated_image_dir", frame |-> Max0(fid)]

NoPath == [dir |-> "", frame |-> 0]

\* what one pass of the sink's loop body can receive
LogKinds == {"timeout", "eagain", "recv_error", "header_only", "no_descriptors",
             "descriptors_only", "no_image", "annotated_missing", "bad_json",
             "not_object", "bad_field", "envelope"}

\* mutant of LogHandling: a header that does not parse ends the loop
LogHandling_BadJsonFatal(kind) ==
    CASE kind \in {"timeout", "eagain"} -> "continue"
      [] kind \in {"recv_error", "bad_json"} -> "break"
      [] kind = "envelope" -> "persist"
      [] kind \in {"not_object", "bad_field"} -> "throw"
      [] OTHER -> "discard"

\* what the loop body does with what it received; "throw" when header.value or
\* source.value throws: the header is JSON but no object ("not_object"), or
\* "source" is no object or a field of it has another type than the one read
\* ("bad_field")
LogHandling(kind) ==
    CASE kind \in {"timeout", "eagain"} -> "continue"
      [] kind = "recv_error" -> "break"
      [] kind = "envelope" -> "persist"
      [] kind \in {"not_object", "bad_field"} -> "throw"
      [] OTHER -> "discard"

\* mutant of AnnotatedSaved: the length of the fourth part is not looked at
AnnotatedSaved_AnyPart(annotated, ann_ok) == annotated # "absent" /\ ann_ok

\* annotated_saved: a non-empty fourth part whose file opened
AnnotatedSaved(annotated, ann_ok) == annotated = "present" /\ ann_ok

\* the row of a frame: frame_id stands for the header received, annotated_path
\* for the member of that name in metadata_json (NoPath: no such member)
Row(fid, saved) ==
    [frame_id |-> fid, image_path |-> ImagePath(fid),
     annotated_path |-> IF saved THEN AnnotatedPath(fid) ELSE NoPath]

NoEnvelope == [frame_id |-> -1, image |-> "bytes", annotated |-> "absent", saved |-> FALSE]

\* directories, sqlite3_open, ensure_schema, sqlite3_prepare_v2
LogStartup ==
    /\ prog = "logger" /\ pc = "startup"
    /\ \E step \in {"ok", "directories_failed", "open_failed", "schema_failed",
                    "prepare_failed"} :
         IF step = "ok"
         THEN /\ db_ready' = TRUE
              /\ pc' = "connect"
              /\ UNCHANGED <<monVars, teardown, exit_code>>
         ELSE /\ ReturnFromMain(1, <<>>, <<>>, TRUE)
              /\ UNCHANGED <<db_ready, sub_count, n_up, n_down>>
    /\ UNCHANGED <<cfgVars, g_keep_running, attempt, pipeVars, histVars, files,
                   annotated_files, rows, envelope, log>>

\* connect_with_retry(sink, ...), one pass of its loop
LogConnect ==
    /\ prog = "logger" /\ pc = "connect"
    /\ IF ~g_keep_running
       THEN /\ ReturnFromMain(1, <<>>, LogLocals, TRUE)
            /\ UNCHANGED <<attempt, sub_count, n_up, n_down>>
       ELSE \E ok \in BOOLEAN :
              IF ok
              THEN /\ pc' = "loop"
                   /\ attempt' = 1
                   /\ UNCHANGED <<monVars, teardown, exit_code>>
              ELSE /\ attempt <= MaxConnectFails
                   /\ attempt' = attempt + 1
                   /\ UNCHANGED <<pc, monVars, teardown, exit_code>>
    /\ UNCHANGED <<cfgVars, g_keep_running, pipeVars, histVars, sinkVars>>

\* head of the receive loop
LogLoop ==
    /\ prog = "logger" /\ pc = "loop"
    /\ pc' = IF g_keep_running THEN "recv" ELSE "shutdown"
    /\ recv_kind' = "none"
    /\ UNCHANGED <<cfgVars, g_keep_running, attempt, monVars, teardown, exit_code,
                   pipeVars, oversize, built, bind_calls, bound, sweeps, sinkVars>>

\* the body of the receive loop up to the header fields: receive the parts and
\* parse the header
LogRecv ==
    /\ prog = "logger" /\ pc = "recv"
    /\ \E kind \in LogKinds :
         /\ recv_kind' = kind
         /\ CASE LogHandling(kind) = "continue" ->
                   /\ pc' = "loop"
                   /\ UNCHANGED <<envelope, log>>
              [] LogHandling(kind) = "break" ->
                   /\ pc' = "shutdown"
                   /\ UNCHANGED <<envelope, log>>
              [] LogHandling(kind) = "discard" ->
                   /\ Len(log) < MaxFrames
                   /\ log' = Append(log, [frame_id |-> -1,
                                           outcome |-> IF kind = "bad_json" THEN "bad_json"
                                                       ELSE "incomplete"])
                   /\ pc' = "loop"
                   /\ UNCHANGED envelope
              [] LogHandling(kind) = "persist" ->
                   /\ Len(log) < MaxFrames
                   /\ \E image \in {"bytes", "empty"},
                         annotated \in {"absent", "empty", "present"} :
                        envelope' = [frame_id |-> Len(log), image |-> image,
                                     annotated |-> annotated, saved |-> FALSE]
                   /\ pc' = "write_raw"
                   /\ UNCHANGED log
              [] LogHandling(kind) = "throw" ->
                   /\ pc' = "exited"
                   /\ UNCHANGED <<envelope, log>>
         /\ exit_code' = IF LogHandling(kind) = "throw" THEN Terminated ELSE exit_code
    /\ UNCHANGED <<cfgVars, g_keep_running, attempt, monVars, teardown, pipeVars,
                   oversize, built, bind_calls, bound, sweeps, db_ready, files,
                   annotated_files, rows>>

\* mutant of LogWriteRaw: the frame is not skipped when the file does not open
LogWriteRaw_NoSkip ==
    /\ prog = "logger" /\ pc = "write_raw"
    /\ \E raw_ok \in BOOLEAN :
         /\ files' = IF raw_ok THEN files \cup {ImagePath(envelope.frame_id)} ELSE files
         /\ pc' = "write_annotated"
         /\ UNCHANGED log
    /\ UNCHANGED <<cfgVars, g_keep_running, attempt, monVars, teardown, exit_code,
                   pipeVars, histVars, db_ready, annotated_files, rows, envelope>>

\* open and write the raw image file; the frame is skipped when it does not open
LogWriteRaw ==
    /\ prog = "logger" /\ pc = "write_raw"
    /\ \E raw_ok \in BOOLEAN :
         IF raw_ok
         THEN /\ files' = files \cup {ImagePath(envelope.frame_id)}
              /\ pc' = "write_annotated"
              /\ UNCHANGED <<envelope, log>>
         ELSE /\ log' = Append(log, [frame_id |-> envelope.frame_id,
                                     outcome |-> "raw_failed"])
              /\ envelope' = NoEnvelope
              /\ pc' = "loop"
              /\ UNCHANGED files
    /\ UNCHANGED <<cfgVars, g_keep_running, attempt, monVars, teardown, exit_code,
                   pipeVars, histVars, db_ready, annotated_files, rows>>

\* open and write the annotated image file when a non-empty fourth part came
LogWriteAnnotated ==
    /\ prog = "logger" /\ pc = "write_annotated"
    /\ \E ann_ok \in BOOLEAN :
         /\ annotated_files' =
                IF envelope.annotated = "present" /\ ann_ok
                THEN annotated_files \cup {AnnotatedPath(envelope.frame_id)}
                ELSE annotated_files
         /\ envelope' = [envelope EXCEPT
                            !.saved = AnnotatedSaved(envelope.annotated, ann_ok)]
    /\ pc' = "insert"
    /\ UNCHANGED <<cfgVars, g_keep_running, attempt, monVars, teardown, exit_code,
                   pipeVars, histVars, db_ready, files, rows, log>>

\* mutant of LogInsert: a failed insert ends the receive loop
LogInsert_FailureBreaks ==
    /\ prog = "logger" /\ pc = "insert"
    /\ \E insert_ok \in BOOLEAN :
         /\ rows' = IF insert_ok
                    THEN Append(rows, Row(envelope.frame_id, envelope.saved))
                    ELSE rows
         /\ log' = Append(log, [frame_id |-> envelope.frame_id,
                                 outcome |-> IF insert_ok THEN "stored"
                                             ELSE "insert_failed",
                                 annotated |-> envelope.annotated])
         /\ pc' = IF insert_ok THEN "loop" ELSE "shutdown"
    /\ envelope' = NoEnvelope
    /\ UNCHANGED <<cfgVars, g_keep_running, attempt, monVars, teardown, exit_code,
                   pipeVars, histVars, db_ready, files, annotated_files>>

\* mutant of LogInsert: two rows are inserted
LogInsert_Twice ==
    /\ prog = "logger" /\ pc = "insert"
    /\ \E insert_ok \in BOOLEAN :
         /\ rows' = IF insert_ok
                    THEN rows \o <<Row(envelope.frame_id, envelope.saved),
                                   Row(envelope.frame_id, envelope.saved)>>
                    ELSE rows
         /\ log' = Append(log, [frame_id |-> envelope.frame_id,
                                 outcome |-> IF insert_ok THEN "stored"
                                             ELSE "insert_failed",
                                 annotated |-> envelope.annotated])
    /\ envelope' = NoEnvelope
    /\ pc' = "loop"
    /\ UNCHANGED <<cfgVars, g_keep_running, attempt, monVars, teardown, exit_code,
                   pipeVars, histVars, db_ready, files, annotated_files>>

\* bind the parameters and step the insert statement
LogInsert ==
    /\ prog = "logger" /\ pc = "insert"
    /\ \E insert_ok \in BOOLEAN :
         /\ rows' = IF insert_ok
                    THEN Append(rows, Row(envelope.frame_id, envelope.saved))
                    ELSE rows
         /\ log' = Append(log, [frame_id |-> envelope.frame_id,
                                 outcome |-> IF insert_ok THEN "stored"
                                             ELSE "insert_failed",
                                 annotated |-> envelope.annotated])
    /\ envelope' = NoEnvelope
    /\ pc' = "loop"
    /\ UNCHANGED <<cfgVars, g_keep_running, attempt, monVars, teardown, exit_code,
                   pipeVars, histVars, db_ready, files, annotated_files>>

\* sqlite3_finalize and return 0
LogShutdown ==
    /\ prog = "logger" /\ pc = "shutdown"
    /\ ReturnFromMain(0, <<>>, LogLocals, TRUE)
    /\ UNCHANGED <<cfgVars, g_keep_running, attempt, sub_count, n_up, n_down, pipeVars,
                   histVars, sinkVars>>

LogNext ==
    \/ LogStartup
    \/ LogConnect
    \/ LogLoop
    \/ LogRecv
    \/ LogWriteRaw
    \/ LogWriteAnnotated
    \/ LogInsert
    \/ LogShutdown

\* ------------------------------------------------------------ configuration phase
\* loader.load_from_file: the file does not open, or its content is loaded
CfgLoad ==
    /\ prog = "config" /\ pc = "load" /\ loads < 2
    /\ \E opened \in BOOLEAN :
         IF opened
         THEN /\ values_' = load_from_string(values_, buffer)
              /\ loads' = loads + 1
              /\ UNCHANGED <<pc, monVars, teardown, exit_code>>
         ELSE /\ loads = 0
              /\ ReturnFromMain(1, <<>>, <<>>, TRUE)
              /\ UNCHANGED <<values_, loads, sub_count, n_up, n_down>>
    /\ UNCHANGED <<pubVars, rcvVars, stoVars, prog, run_once, num_images,
                   max_queue_depth, send_annotated, buffer, queue_depth,
                   g_keep_running, attempt, pipeVars, histVars, sinkVars>>

\* load_app_config
CfgLoadAppConfig ==
    /\ prog = "config" /\ pc = "load" /\ loads > 0
    /\ queue_depth' = GeneratorQueueDepth(values_)
    /\ pc' = "depth"
    /\ UNCHANGED <<pubVars, rcvVars, stoVars, prog, run_once, num_images,
                   max_queue_depth, send_annotated, buffer, values_, loads,
                   g_keep_running, attempt, monVars, teardown, exit_code, pipeVars,
                   histVars, sinkVars>>

\* the producer's queue bound
CfgQueueDepth ==
    /\ prog = "config" /\ pc = "depth"
    /\ max_queue_depth' = EffectiveQueueDepth(queue_depth)
    /\ pc' = "configured"
    /\ UNCHANGED <<pubVars, rcvVars, stoVars, prog, run_once, num_images,
                   send_annotated, envVars, g_keep_running, attempt, monVars,
                   teardown, exit_code, pipeVars, histVars, sinkVars>>

CfgNext ==
    \/ CfgLoad
    \/ CfgLoadAppConfig
    \/ CfgQueueDepth

\* ------------------------------------------------------------ publish
\* The emit step of a stage with the read of the subscriber counter and the send
\* as separate steps of the main thread, the subscribers of the publisher
\* socket, and the monitor thread reading the events the socket queued.
pubRest == <<g_keep_running, attempt, stop_flag, mon, loop_iteration, idx,
             pending, processed, upstream_next, produced, emit_after_sub, send_fails,
             teardown, exit_code, histVars, sinkVars, rcvVars, stoVars>>

\* a subscriber connects: the socket accepts it and queues the event
PeerConnect ==
    /\ prog = "publish"
    /\ peers < MaxPeers /\ n_up + n_down + Len(event_queue) < MaxEvents
    /\ peers' = peers + 1
    /\ event_queue' = Append(event_queue, "accepted")
    /\ UNCHANGED <<runVars, pc, sub_count, frame_id, pending_frames, sent,
                   n_up, n_down, pubRest>>

\* a subscriber goes away: the socket drops it and queues the event
PeerDisconnect ==
    /\ prog = "publish"
    /\ peers > 0 /\ n_up + n_down + Len(event_queue) < MaxEvents
    /\ peers' = peers - 1
    /\ event_queue' = Append(event_queue, "disconnected")
    /\ UNCHANGED <<runVars, pc, sub_count, frame_id, pending_frames, sent,
                   n_up, n_down, pubRest>>

\* the monitor thread: check_event reads one event and calls its handler
check_event ==
    /\ prog = "publish" /\ mon = "running" /\ ~stop_flag
    /\ event_queue # <<>>
    /\ sub_count' = IF Head(event_queue) = "accepted" THEN sub_count + 1
                    ELSE sub_count - 1
    /\ n_up' = IF Head(event_queue) = "accepted" THEN n_up + 1 ELSE n_up
    /\ n_down' = IF Head(event_queue) = "accepted" THEN n_down ELSE n_down + 1
    /\ event_queue' = Tail(event_queue)
    /\ UNCHANGED <<runVars, pc, peers, frame_id, pending_frames, sent, pubRest>>

\* the gate: monitor->has_subscriber() is read
PubGate ==
    /\ prog = "publish" /\ pc = "gate"
    /\ frame_id < MaxFrames
    /\ pc' = IF HasSubscriber THEN "send" ELSE "queue"
    /\ UNCHANGED <<runVars, pubVars, sub_count, frame_id, pending_frames, sent,
                   n_up, n_down, pubRest>>

\* the branch that queues the frame
PubQueue ==
    /\ prog = "publish" /\ pc = "queue"
    /\ pending_frames' = QueueFrame(pending_frames, Header(frame_id, loop_iteration),
                                    max_queue_depth)
    /\ frame_id' = frame_id + 1
    /\ pc' = "gate"
    /\ UNCHANGED <<runVars, pubVars, sub_count, sent, n_up, n_down, pubRest>>

\* the branch that sends the frame: both parts are handed to the socket
PubSend ==
    /\ prog = "publish" /\ pc = "send"
    /\ sent' = Append(sent, Header(frame_id, loop_iteration))
    /\ frame_id' = frame_id + 1
    /\ pc' = "gate"
    /\ UNCHANGED <<runVars, pubVars, sub_count, pending_frames, n_up, n_down, pubRest>>

PubNext ==
    \/ PubGate
    \/ PubQueue
    \/ PubSend
    \/ check_event
    \/ PeerConnect
    \/ PeerDisconnect

\* ------------------------------------------------------------ receive
\* The receive step of the worker or of the sink with every recv call as a step
\* of its own, on a socket that holds the parts of one message.
rcvRest == <<runVars, pubVars, stoVars, g_keep_running, attempt, monVars, teardown,
             exit_code, pipeVars, histVars, sinkVars>>

\* the parts the receiver reads before it looks at the header: two at the worker;
\* at the sink three, and a fourth when the third has the more flag
PartsWanted(who, parts) ==
    IF who = "extractor" THEN 2
    ELSE IF Len(parts) >= 3 /\ parts[3].more THEN 4 ELSE 3

\* recv(header_msg): a header without the more flag is discarded
RcvHeader ==
    /\ prog = "receive" /\ pc = "recv_header"
    /\ stream # <<>>
    /\ stream' = Tail(stream)
    /\ IF Head(stream).more
       THEN held' = <<Head(stream)>> /\ pc' = "recv_part"
       ELSE held' = <<>> /\ UNCHANGED pc
    /\ UNCHANGED <<receiver, accepted, rcvRest>>

\* the recv of a later part; the sink discards what it has when the descriptors
\* come without the more flag
RcvPart ==
    /\ prog = "receive" /\ pc = "recv_part"
    /\ stream # <<>>
    /\ stream' = Tail(stream)
    /\ LET parts == Append(held, Head(stream)) IN
         IF receiver = "logger" /\ Len(parts) = 2 /\ ~Head(stream).more
         THEN held' = <<>> /\ pc' = "recv_header"
         ELSE /\ held' = parts
              /\ pc' = IF Len(parts) = PartsWanted(receiver, parts) THEN "parse"
                       ELSE "recv_part"
    /\ UNCHANGED <<receiver, accepted, rcvRest>>

\* json::parse of the header part and, at the worker, imdecode of the payload:
\* the envelope is accepted or dropped
RcvParse ==
    /\ prog = "receive" /\ pc = "parse"
    /\ accepted' = IF /\ held[1].body = "json"
                      /\ receiver = "extractor" => held[2].body = "bytes"
                   THEN Append(accepted, held[1].pos)
                   ELSE accepted
    /\ held' = <<>>
    /\ pc' = "recv_header"
    /\ UNCHANGED <<receiver, stream, rcvRest>>

RcvNext ==
    \/ RcvHeader
    \/ RcvPart
    \/ RcvParse

\* ------------------------------------------------------------ persist
\* The sink's loop body from the header fields to the insert, for envelopes that
\* arrived whole, with the values of the header fields followed; every file
\* opens and every insert succeeds.
stoRest == <<runVars, pubVars, rcvVars, g_keep_running, attempt, monVars, teardown,
             exit_code, pipeVars, histVars, sinkVars>>

\* an envelope has arrived: the header fields are read into the locals and
\* image_path is composed
StoFields ==
    /\ prog = "persist" /\ pc = "fields"
    /\ Len(table) < MaxEnvelopes
    /\ \E header \in Headers :
         LET fid == ValueInt(header.frame_id, -1) IN
         fields' = [header |-> header,
                    frame_id |-> fid,
                    loop_iteration |-> ValueInt(header.loop_iteration, 0),
                    image_path |-> RawImagePath(fid, header.processed_timestamp)]
    /\ pc' = "write_raw"
    /\ UNCHANGED <<disk, table, stoRest>>

\* std::ofstream out(image_path, std::ios::binary), write, close: the file is
\* created, or truncated and written again
StoWriteRaw ==
    /\ prog = "persist" /\ pc = "write_raw"
    /\ disk' = (fields.image_path :> Len(table) + 1) @@ disk
    /\ pc' = "insert"
    /\ UNCHANGED <<fields, table, stoRest>>

\* the locals are bound and the insert statement is stepped
StoInsert ==
    /\ prog = "persist" /\ pc = "insert"
    /\ table' = Append(table, [frame_id |-> fields.frame_id,
                               loop_iteration |-> fields.loop_iteration,
                               image_path |-> fields.image_path,
                               header |-> fields.header])
    /\ fields' = NoFields
    /\ pc' = "fields"
    /\ UNCHANGED <<disk, stoRest>>

StoNext ==
    \/ StoFields
    \/ StoWriteRaw
    \/ StoInsert

MonitorNext ==
    \/ on_event_connected
    \/ on_event_accepted
    \/ on_event_disconnected
    \/ on_event_closed

Next ==
    \/ GenNext \/ ExtNext \/ LogNext \/ CfgNext \/ PubNext \/ RcvNext \/ StoNext
    \/ MonitorNext \/ HandleSignal

Spec == Init /\ [][Next]_vars

\* the steps of the main thread
MainNext == GenNext \/ ExtNext \/ LogNext \/ CfgNext

\* the main thread keeps running: its blocking calls (receive, monitor poll,
\* sleeps, backoffs) all return after a bounded time
FairSpec == Spec /\ WF_vars(MainNext)

\* one run of one program
GenInit == Init /\ prog = "generator"
ExtInit == Init /\ prog = "extractor"
LogInit == Init /\ prog = "logger"
CfgInit == Init /\ prog = "config"
PubInit == Init /\ prog = "publish"
RcvInit == Init /\ prog = "receive"
StoInit == Init /\ prog = "persist"

GenSpec == GenInit /\ [][GenNext \/ MonitorNext \/ HandleSignal]_vars
ExtSpec == ExtInit /\ [][ExtNext \/ MonitorNext \/ HandleSignal]_vars
LogSpec == LogInit /\ [][LogNext \/ HandleSignal]_vars
CfgSpec == CfgInit /\ [][CfgNext]_vars
PubSpec == PubInit /\ [][PubNext]_vars
RcvSpec == RcvInit /\ [][RcvNext]_vars
StoSpec == StoInit /\ [][StoNext]_vars

FairGenSpec == GenSpec /\ WF_vars(GenNext)
FairExtSpec == ExtSpec /\ WF_vars(ExtNext)

\* ------------------------------------------------------------ claims
Last(q) == q[Len(q)]
Front(q) == SubSeq(q, 1, Len(q) - 1)

\* q2 is q with f appended at the back, the front of q possibly dropped
AppendedAtBack(q, q2, f) ==
    /\ q2 # <<>>
    /\ Last(q2) = f
    /\ \/ Front(q2) = q
       \/ q # <<>> /\ Front(q2) = Tail(q)

\* the last n elements of s, in order
LastN(s, n) == SubSeq(s, Len(s) - (IF Len(s) < n THEN Len(s) ELSE n) + 1, Len(s))

\* position of the first occurrence of e in s, 0 when absent
FirstIndex(s, e) ==
    IF \E i \in 1..Len(s) : s[i] = e
    THEN CHOOSE i \in 1..Len(s) : s[i] = e /\ \A j \in 1..(i - 1) : s[j] # e
    ELSE 0

\* the pending queue of the running program
Queue == IF prog = "generator" THEN pending_frames ELSE pending

\* C1: in every reachable state of the producer and of the worker the pending
\* queue holds at most max_queue_depth envelopes.
C1_PendingBounded ==
    /\ Len(pending_frames) <= max_queue_depth
    /\ Len(pending) <= max_queue_depth

\* C1 witness: the producer's queue is full after its oldest frame was dropped.
C1_Witness ==
    /\ prog = "generator"
    /\ Len(pending_frames) = max_queue_depth
    /\ sent = <<>>
    /\ frame_id > max_queue_depth
    /\ Head(pending_frames).frame_id > 0

\* C2: the producer transmits its envelopes in frame_id order: of any two
\* transmitted envelopes the one with the smaller frame_id went out first.
C2_ProducerFrameOrder ==
    prog = "generator" =>
        \A i, j \in 1..Len(sent) : i < j => sent[i].frame_id < sent[j].frame_id

\* C3: the worker never transmits a newly processed envelope while an earlier
\* processed envelope is still in the pending queue.
C3_WorkerNoOvertake ==
    [][(prog = "extractor" /\ pc = "emit" /\ Len(sent') > Len(sent))
          => pending = <<>>]_vars

\* C4: when a send fails during a flush, the envelope whose send failed is still
\* at the front of the pending queue afterwards and the flush stops.
C4_FailedFlushKeepsFront ==
    [][(pc = "flush" /\ send_fails' = send_fails + 1)
          => /\ Queue' # <<>>
             /\ Head(Queue') = Head(Queue)
             /\ pc' # "flush"]_vars

\* C5: a failed send of a freshly built frame never makes the producer exit.
C5_SendFailureNotFatal ==
    [][(prog = "generator" /\ pc = "sweep" /\ send_fails' = send_fails + 1)
          => (pc' # "exited" /\ exit_code' = -1)]_vars

\* C6: the worker's emit step: without a subscriber no send is attempted and the
\* envelope is appended to the back of the queue; a failed send appends it too;
\* it is left out of the queue exactly when the send succeeded; and no failed
\* send makes the worker exit.
C6_WorkerEmit ==
    [][/\ (prog = "extractor" /\ pc = "emit" /\ pc' # "emit") =>
            /\ ~HasSubscriber =>
                  /\ sent' = sent /\ send_fails' = send_fails
                  /\ AppendedAtBack(pending, pending', processed)
            /\ send_fails' > send_fails =>
                  /\ sent' = sent
                  /\ AppendedAtBack(pending, pending', processed)
            /\ (pending' = pending) <=> (sent' = Append(sent, processed))
            /\ pending' # pending => AppendedAtBack(pending, pending', processed)
       /\ (prog = "extractor" /\ send_fails' > send_fails) =>
            (pc' # "exited" /\ exit_code' = -1)]_vars

\* C6 witness: a subscriber was present, the send of the first processed frame
\* failed, and the frame is in the queue.
C6_Witness ==
    /\ prog = "extractor" /\ pc = "loop"
    /\ HasSubscriber
    /\ send_fails = 1
    /\ sent = <<>>
    /\ Len(produced) = 1
    /\ emit_after_sub
    /\ pending = produced

\* C7: the producer's gate: without a subscriber the frame is not sent and is
\* appended to the back of the queue; otherwise it is transmitted at once and the
\* queue is unchanged.
C7_ProducerGate ==
    [][(prog = "generator" /\ pc = "sweep"
          /\ (frame_id' # frame_id \/ send_fails' # send_fails)) =>
            LET f == Header(frame_id, loop_iteration) IN
            IF ~HasSubscriber
            THEN /\ sent' = sent
                 /\ AppendedAtBack(pending_frames, pending_frames', f)
            ELSE /\ sent' = Append(sent, f)
                 /\ pending_frames' = pending_frames]_vars

\* C8: drop-oldest: as long as every processed envelope reached the emit step
\* before any subscriber event, what was transmitted followed by what is still
\* queued is exactly the last min(k, N) of the k processed envelopes, in
\* production order, and nothing is transmitted before a subscriber connects.
C8_DropOldest ==
    (prog = "extractor" /\ ~emit_after_sub) =>
        /\ sent \o pending = LastN(produced, max_queue_depth)
        /\ n_up = 0 => sent = <<>>

\* C8 witness: more envelopes than the bound were processed without a
\* subscriber, one connected, and the queue was flushed completely.
C8_Witness ==
    /\ prog = "extractor"
    /\ ~emit_after_sub
    /\ Len(produced) > max_queue_depth
    /\ pending = <<>>
    /\ Len(sent) = max_queue_depth
    /\ Head(sent) = produced[Len(produced) - max_queue_depth + 1]

\* C9: on every path that ends the process after the monitor was started, the
\* monitor is stopped before the publisher socket is closed and before the
\* context is torn down.
C9_MonitorStoppedFirst ==
    (pc = "exited" /\ mon # "idle") =>
        /\ FirstIndex(teardown, "monitor.stop") > 0
        /\ FirstIndex(teardown, "monitor.stop") < FirstIndex(teardown, "publisher.close")
        /\ FirstIndex(teardown, "monitor.stop") < FirstIndex(teardown, "context.close")

\* C10: has_subscriber() is true exactly when more connected/accepted than
\* disconnected/closed events were processed since start(), and the counter is 0
\* when none was processed.
C10_HasSubscriber ==
    /\ HasSubscriber <=> n_up > n_down
    /\ (n_up = 0 /\ n_down = 0) => sub_count = 0

\* C10 witness: a subscriber connected and disconnected again.
C10_Witness ==
    /\ mon = "running"
    /\ n_up = 1 /\ n_down = 1
    /\ ~HasSubscriber

\* the frame_ids of a sequence of frames
Ids(s) == {s[i].frame_id : i \in 1..Len(s)}

\* C11: an envelope that exceeds the size cap is never transmitted by the worker
\* and never enters its pending queue; the worker is back at the head of its
\* loop, still running, right after dropping it.
C11_OversizeDropped ==
    prog = "extractor" =>
        /\ oversize \cap (Ids(sent) \cup Ids(pending) \cup Ids(produced)) = {}
        /\ processed.frame_id \notin oversize
        /\ recv_kind = "too_large" => (pc = "loop" /\ exit_code = -1)

\* C11 witness: an envelope was dropped at the size cap and the next upstream
\* envelope was processed and transmitted.
C11_Witness ==
    /\ prog = "extractor"
    /\ \E k \in oversize : k + 1 \in Ids(sent)

\* the envelopes of the sink's log that arrived complete with a header that parsed
ValidCount(l) ==
    Cardinality({i \in 1..Len(l) : l[i].outcome \notin {"bad_json", "incomplete"}})

\* the envelopes of the sink's log whose raw file was written and whose row was
\* inserted
StoredCount(l) == Cardinality({i \in 1..Len(l) : l[i].outcome = "stored"})

\* C12 as stated: an envelope whose header is not valid JSON leaves the stage
\* running, and the sink has as many rows as it received valid envelopes.
C12_RowsEqualValid ==
    /\ recv_kind = "bad_json" => (pc = "loop" /\ exit_code = -1)
    /\ prog = "logger" => Len(rows) = ValidCount(log)

\* C12 amended: receiving an envelope whose header is not valid JSON changes
\* neither what the worker has emitted or queued nor the sink's files and rows,
\* and the stage is back at its loop head, still running; the sink has as many
\* rows as it received valid envelopes whose raw image was written and whose
\* insert succeeded.
C12_BadJsonDropped ==
    [][/\ (pc = "recv" /\ recv_kind' = "bad_json") =>
            /\ sent' = sent /\ pending' = pending
            /\ produced' = produced /\ processed' = processed
            /\ files' = files /\ annotated_files' = annotated_files /\ rows' = rows
            /\ pc' = "loop" /\ exit_code' = -1
       /\ prog' = "logger" => Len(rows') = StoredCount(log')]_vars

\* C12 witness: the sink received a valid envelope, one with a header that is
\* not valid JSON, and another valid one; it has two rows.
C12_Witness ==
    /\ prog = "logger"
    /\ Len(log) = 3
    /\ log[1].outcome = "stored"
    /\ log[2].outcome = "bad_json"
    /\ log[3].outcome = "stored"
    /\ Len(rows) = 2

\* C13: the image_path of every row names a raw image file the sink has created,
\* and the file is there before the insert is stepped; an annotated_path in a
\* row names an annotated file the sink has created; an envelope whose raw file
\* could not be opened has no row.
C13_RowFilesExist ==
    prog = "logger" =>
        /\ \A i \in 1..Len(rows) :
             /\ rows[i].image_path \in files
             /\ rows[i].annotated_path # NoPath =>
                    rows[i].annotated_path \in annotated_files
        /\ pc = "insert" =>
             /\ ImagePath(envelope.frame_id) \in files
             /\ envelope.saved => AnnotatedPath(envelope.frame_id) \in annotated_files
        /\ \A j \in 1..Len(log) :
             log[j].outcome = "raw_failed" => log[j].frame_id \notin Ids(rows)

\* C13 witness: one envelope was stored with its annotated image, the raw file of
\* another could not be opened.
C13_Witness ==
    /\ prog = "logger"
    /\ \E i \in 1..Len(rows) : rows[i].annotated_path # NoPath
    /\ \E j \in 1..Len(log) : log[j].outcome = "raw_failed"

\* the frame_ids of a sequence of frames, in order
IdSeq(s) == [i \in 1..Len(s) |-> s[i].frame_id]

RawWritten(e) == e.outcome \in {"stored", "insert_failed"}

RowInserted(e) == e.outcome = "stored"

\* C14 as stated: the rows are, in the order received, exactly the envelopes
\* whose raw image was written, one row each.
C14_OneRowPerRawImage ==
    prog = "logger" => IdSeq(rows) = IdSeq(SelectSeq(log, RawWritten))

\* C14 amended: the rows are, in the order received, exactly the envelopes whose
\* raw image was written and whose insert succeeded, one row each; a raw image
\* whose insert failed has no row.
C14_OneRowPerStoredImage ==
    prog = "logger" =>
        /\ IdSeq(rows) = IdSeq(SelectSeq(log, RowInserted))
        /\ \A j \in 1..Len(log) :
             log[j].outcome = "insert_failed" =>
                 (ImagePath(log[j].frame_id) \in files /\ log[j].frame_id \notin Ids(rows))

\* C14 witness: two envelopes were stored and the insert of a third, whose raw
\* image was written, failed.
C14_Witness ==
    /\ prog = "logger"
    /\ Len(rows) = 2
    /\ \E j \in 1..Len(log) : log[j].outcome = "insert_failed"

\* the run ended on a fatal startup error: no input image, the publisher could
\* not be bound, or the sink's directories or database could not be set up
StartupError ==
    \/ prog = "generator" /\ num_images = 0
    \/ bind_calls = kZmqRetryAttempts /\ ~bound
    \/ prog = "logger" /\ ~db_ready

\* C15: a stage that was signalled exits with code 0 unless a fatal startup
\* error ended it, and exit code 1 occurs only for fatal startup errors.
C15_SignalExitsZero ==
    pc = "exited" =>
        /\ (~g_keep_running /\ ~StartupError) => exit_code = 0
        /\ exit_code = 1 => StartupError

\* C16: once the shutdown flag is false the stage eventually terminates, wherever
\* its main thread was, and nothing is sent once the main loop has been left:
\* what is still queued is discarded.
C16_ShutdownTerminates ==
    /\ (~g_keep_running) ~> (pc = "exited")
    /\ [][(pc = "shutdown" \/ pc = "exited") => sent' = sent]_vars

\* C16 witness: the worker was signalled with entries in its pending queue and
\* has terminated with them still queued.
C16_Witness ==
    /\ prog = "extractor"
    /\ ~g_keep_running
    /\ pc = "exited"
    /\ exit_code = 0
    /\ pending # <<>>

\* C17: in the worker, once the shutdown flag is false no pending entry is
\* flushed and no receive that starts from then on leads to an envelope being
\* processed.
C17_NoWorkAfterShutdown ==
    [][(prog = "extractor" /\ ~g_keep_running) =>
          /\ pc = "flush" => (sent' = sent /\ pending' = pending)
          /\ pc = "recv" => (pc' # "emit" /\ upstream_next' = upstream_next)]_vars

\* the main thread of the producer or the worker is in or past its main loop
InMainLoop ==
    pc \in {"warmup", "outer", "flush", "sweep", "endsweep", "loop", "recv", "emit",
            "shutdown"}

\* C18: producer and worker call bind at most three times; after a successful
\* bind the next thing is the start of the monitor; when all three calls fail
\* the stage has exited with code 1, the monitor was never started and nothing
\* of the main loop has run.
C18_BindAtMostThree ==
    prog \in {"generator", "extractor"} =>
        /\ bind_calls <= kZmqRetryAttempts
        /\ (bound /\ mon = "idle") => pc = "monstart"
        /\ (mon # "idle" \/ InMainLoop) => bound
        /\ (~bound /\ bind_calls = kZmqRetryAttempts) =>
              /\ pc = "exited" /\ exit_code = 1
              /\ mon = "idle"
              /\ frame_id = 0 /\ upstream_next = 0 /\ sent = <<>>

\* C18 witness: all three bind calls of the producer failed.
C18_Witness ==
    /\ prog = "generator"
    /\ bind_calls = kZmqRetryAttempts
    /\ ~bound
    /\ pc = "exited"

\* C19: a producer that found no matching image exits with code 1 without ever
\* calling bind and without ever starting its monitor.
C19_NoImagesNoBind ==
    (prog = "generator" /\ num_images = 0) =>
        /\ pc \in {"collect", "exited"}
        /\ pc = "exited" => exit_code = 1
        /\ bind_calls = 0 /\ ~bound
        /\ mon = "idle"

\* C19 witness: the producer found no image and has exited.
C19_Witness ==
    /\ prog = "generator"
    /\ num_images = 0
    /\ pc = "exited"

\* C20: the producer's frame_id starts at 0 and every envelope built, sent or
\* queued, carries the frame_id of the one built before it plus one; no two
\* envelopes share a frame_id, also across sweeps.
C20_FrameIdConsecutive ==
    prog = "generator" =>
        /\ \A i \in 1..Len(built) : built[i] = i - 1
        /\ Ids(sent) \cup Ids(pending_frames) \subseteq {built[i] : i \in 1..Len(built)}
        /\ LET out == sent \o pending_frames
           IN  \A i, j \in 1..Len(out) : i # j => out[i].frame_id # out[j].frame_id

\* C20 witness: three envelopes were built over two sweeps, some sent and some
\* queued.
C20_Witness ==
    /\ prog = "generator"
    /\ Len(built) = 3
    /\ loop_iteration = 1
    /\ sent # <<>>
    /\ pending_frames # <<>>

\* ---------------------------------------------------------------------------
\* C21: frame_id is incremented once per attempted frame, also for a frame
\* that was dropped because it failed to decode, failed to re-encode or was
\* oversize: every sweep iteration that moves on to the next file advances
\* frame_id by one.
AttemptsFile == prog = "generator" /\ pc = "sweep" /\ idx' = idx + 1

C21_FrameIdPerAttempt ==
    [][AttemptsFile => frame_id' = frame_id + 1]_vars

\* ---------------------------------------------------------------------------
\* C22: with --once the producer performs exactly one sweep: each file is
\* attempted at most once (the file index never goes back), every envelope
\* carries loop_iteration 0, and after the sweep the producer goes to its
\* shutdown sequence and returns 0; in every run, an envelope built in the
\* k-th sweep (k from 0) carries loop_iteration k.
\* the envelope built by this step, wherever it went
BuiltNow == Header(frame_id, loop_iteration)

C22_OnceSingleSweep ==
    /\ [](prog = "generator" /\ run_once =>
            /\ sweeps <= 1
            /\ \A i \in 1..Len(sent) : sent[i].loop_iteration = 0
            /\ \A i \in 1..Len(pending_frames) : pending_frames[i].loop_iteration = 0)
    /\ [][prog = "generator" /\ run_once => idx' >= idx]_vars
    /\ [][(prog = "generator" /\ run_once /\ pc = "endsweep" /\ pc' # pc)
            => pc' = "shutdown"]_vars
    /\ [][(prog = "generator" /\ pc = "shutdown" /\ pc' = "exited")
            => exit_code' = 0]_vars
    /\ [][(prog = "generator" /\ built' # built) =>
            /\ BuiltNow.loop_iteration = sweeps - 1
            /\ sent' # sent => Last(sent') = BuiltNow
            /\ pending_frames' # pending_frames => Last(pending_frames') = BuiltNow]_vars

\* C22 witnesses: a --once run that swept two files and returned 0 with an
\* envelope sent; a continuous run that sent an envelope of its second sweep
C22_Witness ==
    \/ /\ prog = "generator" /\ run_once /\ pc = "exited" /\ exit_code = 0
       /\ idx = 3 /\ sweeps = 1 /\ sent # <<>>
    \/ /\ prog = "generator" /\ ~run_once /\ sweeps = 2
       /\ \E i \in 1..Len(sent) : sent[i].loop_iteration = 1

\* ---------------------------------------------------------------------------
\* C23: worker and sink discard an envelope whose image part has zero length:
\* the worker emits nothing for it (nothing sent, nothing queued), the sink
\* writes no file and inserts no row for it.
C23_EmptyImageDiscarded ==
    /\ [][(prog = "extractor" /\ pc = "recv" /\ recv_kind' = "empty_image") =>
            sent' = sent /\ pending' = pending /\ pc' = "loop"]_vars
    /\ [][(prog = "logger" /\ envelope.image = "empty") =>
            files' = files /\ annotated_files' = annotated_files /\ rows' = rows]_vars

\* ---------------------------------------------------------------------------
\* C24: when IMAGE_GENERATOR_QUEUE_DEPTH is absent from the environment (or its
\* value is not parseable, or not positive), the producer's pending-queue
\* bound is 100, whatever the values of the other keys.
GeneratorKeyUnusable ==
    \/ kGeneratorQueueKey \notin DOMAIN values_
    \/ stoi(values_[kGeneratorQueueKey]).throws
    \/ stoi(values_[kGeneratorQueueKey]).value <= 0

C24_DefaultQueueDepth ==
    (prog = "config" /\ pc = "configured" /\ GeneratorKeyUnusable)
        => max_queue_depth = kDefaultQueueDepth

\* ---------------------------------------------------------------------------
\* C25: loading the same content twice into an EnvLoader yields the same
\* mapping as loading it once, and a key that occurs several times has the
\* value of its last occurrence.
\* the lines of buf that assign to key, by position
Occurrences(buf, key) ==
    {i \in 1..Len(buf) :
        /\ ~is_comment_or_empty(buf[i])
        /\ find(buf[i], "=") > 0
        /\ trim(SubSeq(buf[i], 1, find(buf[i], "=") - 1)) = key}

Max(S) == CHOOSE x \in S : \A y \in S : y <= x

OccurrenceValue(line) == trim(SubSeq(line, find(line, "=") + 1, Len(line)))

KeysTried == {kGeneratorQueueKey, kExtractorQueueKey}

C25_LoadIdempotent ==
    (prog = "config" /\ loads > 0) =>
        /\ loads = 2 => values_ = load_from_string(NoValues, buffer)
        /\ DOMAIN values_ = {k \in KeysTried : Occurrences(buffer, k) # {}}
        /\ \A k \in DOMAIN values_ :
             values_[k] = OccurrenceValue(buffer[Max(Occurrences(buffer, k))])

\* C25 witness: a file with two different values for one key was loaded twice
C25_Witness ==
    /\ prog = "config" /\ loads = 2
    /\ \E i, j \in Occurrences(buffer, kGeneratorQueueKey) :
         i < j /\ OccurrenceValue(buffer[i]) # OccurrenceValue(buffer[j])

\* ---------------------------------------------------------------------------
\* C26: in the worker, if from some point on a downstream subscriber is
\* continuously present and sends succeed (no further send fails) while the
\* worker stays in its receive loop, the pending queue eventually becomes
\* empty and stays empty, also when no further upstream envelope arrives.
WorkerRunning == prog = "extractor" /\ pc # "shutdown" /\ pc # "exited"

C26_PendingDrains ==
    \A n \in 0..MaxSendFails :
        <>[](WorkerRunning /\ HasSubscriber /\ send_fails = n) => <>[](pending = <<>>)

\* C26 witness: a subscriber is present, entries are queued, the upstream has
\* nothing more to deliver and the worker is at its flush
C26_Witness ==
    /\ WorkerRunning /\ pc = "flush" /\ g_keep_running
    /\ HasSubscriber
    /\ pending # <<>>
    /\ upstream_next = MaxFrames

\* ---------------------------------------------------------------------------
\* C27: in the producer without --once, if from some point on a subscriber is
\* continuously present and sends succeed (no further send fails) while the
\* producer stays in its publish loop, every envelope in the pending queue is
\* eventually transmitted: the queue becomes and stays empty, and an envelope
\* leaves it only by being sent.
ProducerLooping ==
    prog = "generator" /\ ~run_once /\ pc # "shutdown" /\ pc # "exited"

C27_QueueTransmitted ==
    /\ \A n \in 0..MaxSendFails :
         <>[](ProducerLooping /\ HasSubscriber /\ send_fails = n)
            => <>[](pending_frames = <<>>)
    /\ [][(ProducerLooping /\ HasSubscriber /\ send_fails' = send_fails
             /\ Len(pending_frames') < Len(pending_frames))
            => /\ pending_frames' = Tail(pending_frames)
               /\ sent' = Append(sent, Head(pending_frames))]_vars

\* C27 witness: the continuous producer is at its flush with a subscriber and
\* queued envelopes
C27_Witness ==
    /\ ProducerLooping /\ pc = "flush" /\ g_keep_running
    /\ HasSubscriber
    /\ Len(pending_frames) > 1

\* ---------------------------------------------------------------------------
\* C28: a connect failure of the worker's upstream socket or of the sink's
\* ingress socket never makes the stage give up while the shutdown flag is
\* true: after a failed connect the stage is still connecting, whatever the
\* number of failures so far, and it leaves the connect step with the flag
\* true only by a successful connect.
Connecting == (prog = "extractor" \/ prog = "logger") /\ pc = "connect"

C28_ConnectRetriedForever ==
    [][(Connecting /\ g_keep_running) =>
          /\ exit_code' = -1
          /\ pc' = "connect" \/ pc' = (IF prog = "extractor" THEN "bind" ELSE "loop")
          /\ attempt' # attempt /\ pc' = "connect" => attempt' = attempt + 1]_vars

\* C28 witness: the stage is still connecting after more failed connects than
\* the attempt limit the bind has
C28_Witness ==
    /\ Connecting /\ g_keep_running
    /\ attempt > kZmqRetryAttempts
    /\ exit_code = -1

\* ---------------------------------------------------------------------------
\* C30: the metadata the sink persists is the header it received, with
\* annotated_path added exactly when the annotated part was present, non-empty
\* and its file was written; a failed annotated write or an empty annotated
\* part does not prevent the insert and leaves annotated_path absent.
AnnotatedWritten(e) ==
    e.annotated = "present" /\ AnnotatedPath(e.frame_id) \in annotated_files

C30_MetadataAugmented ==
    /\ [][(prog = "logger" /\ rows' # rows) =>
            /\ Len(rows') = Len(rows) + 1
            /\ Last(rows').frame_id = envelope.frame_id
            /\ Last(rows').annotated_path # NoPath <=> AnnotatedWritten(envelope)
            /\ Last(rows').annotated_path # NoPath =>
                 Last(rows').annotated_path = AnnotatedPath(envelope.frame_id)]_vars
    /\ [][(prog = "logger" /\ pc = "write_annotated" /\ pc' # pc) => pc' = "insert"]_vars

\* C30 witness: three envelopes were stored: one whose annotated file was
\* written, one whose annotated part was empty, one whose annotated file failed
C30_Witness ==
    /\ prog = "logger" /\ Len(rows) = 3
    /\ \E i, j, k \in 1..Len(log) :
         /\ log[i].outcome = "stored" /\ log[i].annotated = "present"
         /\ AnnotatedPath(log[i].frame_id) \in annotated_files
         /\ log[j].outcome = "stored" /\ log[j].annotated = "empty"
         /\ log[k].outcome = "stored" /\ log[k].annotated = "present"
         /\ AnnotatedPath(log[k].frame_id) \notin annotated_files
         /\ \A r \in 1..Len(rows) :
              rows[r].annotated_path # NoPath <=> rows[r].frame_id = log[i].frame_id

\* ---------------------------------------------------------------------------
\* C29: every message the worker transmits has the header, the descriptors and
\* the echoed upstream image as its first three parts, in that order, and a
\* fourth part exactly when the annotated bytes are not empty; without
\* --annotated every message has exactly three parts.
PartNames(m) == [i \in 1..Len(m) |-> m[i].part]

C29_MessageLayout ==
    prog = "extractor" =>
        \A i \in 1..Len(sent) :
            LET m == send_frame(sent[i]) IN
            /\ SubSeq(PartNames(m), 1, 3) = <<"header", "descriptors", "image">>
            /\ m[3].frame_id = sent[i].frame_id
            /\ Len(m) = (IF sent[i].annotated # "empty" THEN 4 ELSE 3)
            /\ Len(m) = 4 => m[4].part = "annotated"
            /\ ~send_annotated => Len(m) = 3

\* C29 witness: a worker with --annotated has sent two four-part messages, a
\* third frame is queued
C29_Witness ==
    /\ prog = "extractor" /\ send_annotated
    /\ Len(sent) > 1
    /\ \A i \in 1..Len(sent) : Len(send_frame(sent[i])) = 4
    /\ pending # <<>>

\* ---------------------------------------------------------------------------
\* C31: no per-message failure stops the sink: after a raw image file that
\* could not be opened, an annotated file that could not be opened or an insert
\* that failed, the sink is still running inside its receive loop and the rows
\* it had are unchanged; rows are only ever appended.
RawWriteFailed == pc = "write_raw" /\ pc' # pc /\ files' = files

AnnotatedWriteFailed ==
    /\ pc = "write_annotated" /\ pc' # pc
    /\ envelope.annotated = "present" /\ ~envelope'.saved

InsertFailed == pc = "insert" /\ pc' # pc /\ Last(log').outcome = "insert_failed"

C31_FailureKeepsSinkRunning ==
    /\ [][(prog = "logger" /\ (RawWriteFailed \/ InsertFailed)) =>
            (pc' = "loop" /\ exit_code' = -1 /\ rows' = rows)]_vars
    /\ [][(prog = "logger" /\ AnnotatedWriteFailed) =>
            (pc' = "insert" /\ exit_code' = -1 /\ rows' = rows)]_vars
    /\ [][(prog = "logger" /\ rows' # rows) => Front(rows') = rows]_vars

\* C31 witness: the raw file of the first envelope could not be opened, the
\* insert of the second failed, and the third, whose annotated file could not be
\* opened, was persisted.
C31_Witness ==
    /\ prog = "logger" /\ Len(log) = 3 /\ Len(rows) = 1
    /\ log[1].outcome = "raw_failed"
    /\ log[2].outcome = "insert_failed"
    /\ log[3].outcome = "stored" /\ log[3].annotated = "present"
    /\ AnnotatedPath(log[3].frame_id) \notin annotated_files
    /\ rows[1].frame_id = log[3].frame_id

\* ---------------------------------------------------------------------------
\* C32: no envelope is handed to the publisher socket at a moment when no
\* subscriber is connected: the read of has_subscriber() and the send that
\* follows it are not separated by the loss of the last subscriber.
C32_SendHasSubscriber ==
    [][(prog = "publish" /\ sent' # sent) => peers > 0]_vars

\* ---------------------------------------------------------------------------
\* C33: each envelope is transmitted at most once by its stage, whether by the
\* flush or by the direct send, and an envelope that was transmitted is in no
\* pending queue.
C33_AtMostOnce ==
    /\ \A i, j \in 1..Len(sent) : sent[i].frame_id = sent[j].frame_id => i = j
    /\ Ids(sent) \cap (Ids(pending_frames) \cup Ids(pending)) = {}

\* C33 witness: the worker queued frame 0, sent frame 1 directly, flushed frame 0
\* and then queued frame 2.
C33_Witness ==
    /\ prog = "extractor"
    /\ IdSeq(sent) = <<1, 0>>
    /\ IdSeq(pending) = <<2>>

\* ---------------------------------------------------------------------------
\* C34: a received header that parses as JSON but is not an object, or whose
\* fields have an unexpected type, never terminates the worker or the sink: the
\* envelope is processed with defaults or discarded and the stage goes on with
\* the next envelope.
C34_OddHeaderSurvived ==
    [][(pc = "recv" /\ (recv_kind' = "not_object" \/ recv_kind' = "bad_field")) =>
         (pc' # "exited" /\ exit_code' = -1)]_vars

\* ---------------------------------------------------------------------------
\* C35: parts of one multipart message are never taken for the beginning of
\* another envelope: when a message has more parts than the receiver expects,
\* its trailing parts are not read as a header and yield no further frame or
\* row, so a message yields at most one envelope, the one whose header is the
\* first part.
C35_OneEnvelopePerMessage ==
    prog = "receive" =>
        /\ Len(accepted) <= 1
        /\ \A i \in 1..Len(accepted) : accepted[i] = 1

\* ---------------------------------------------------------------------------
\* C36: distinct rows of frames never share an image_path: the raw image file
\* a row refers to is never written again for a later envelope, so it holds the
\* image of the envelope the row was inserted for.
C36_ImagePathUnique ==
    prog = "persist" =>
        /\ \A i, j \in 1..Len(table) :
             table[i].image_path = table[j].image_path => i = j
        /\ \A i \in 1..Len(table) : disk[table[i].image_path] = i

\* ---------------------------------------------------------------------------
\* C37 as stated: with --once, a frame that was put on the pending queue during
\* the single sweep is never transmitted, even when a subscriber connects
\* before the sweep ends, and it is still in the queue when the producer shuts
\* down: no step sends a queued frame and no step takes a frame out of the
\* queue.
OnceRun == prog = "generator" /\ run_once

QueuedNotSent == sent' # sent => Last(sent').frame_id \notin Ids(pending_frames)

C37_OnceQueueKept ==
    [][OnceRun =>
         /\ QueuedNotSent
         /\ \A i \in 1..Len(pending_frames) :
              i <= Len(pending_frames') /\ pending_frames'[i] = pending_frames[i]]_vars

\* C37 amended: with --once, a frame that was put on the pending queue is never
\* transmitted, even when a subscriber connects before the sweep ends: the
\* queue is never flushed. The queue changes only when the gate puts a frame at
\* its back, which drops the oldest queued frame when the queue is full; every
\* frame that was not dropped that way is in the queue when the producer shuts
\* down.
C37_OnceQueueNeverSent ==
    [][OnceRun =>
         /\ QueuedNotSent
         /\ pc' # "flush"
         /\ pending_frames' # pending_frames =>
              /\ pc = "sweep"
              /\ pending_frames' = QueueFrame(pending_frames, Last(pending_frames'),
                                              max_queue_depth)]_vars

\* C37 witness: a --once run has ended; frame 0 was queued, a subscriber
\* connected, frame 1 was sent, and frame 0 is still in the queue.
C37_Witness ==
    /\ OnceRun /\ pc = "exited" /\ exit_code = 0
    /\ IdSeq(pending_frames) = <<0>>
    /\ IdSeq(sent) = <<1>>

\* ---------------------------------------------------------------------------
\* C38: the frame_id and the loop_iteration of a row are the values the
\* producer put in the upstream header, for every value of the producer's
\* 64-bit counters, those of 2^31 and above included.
SameNumber(n, v) == v.hi = 0 /\ v.lo = n

C38_CountersPersisted ==
    prog = "persist" =>
        \A i \in 1..Len(table) :
            table[i].header.frame_id # NoMember =>
                /\ SameNumber(table[i].frame_id, table[i].header.frame_id)
                /\ SameNumber(table[i].loop_iteration, table[i].header.loop_iteration)

\* ---------------------------------------------------------------------------
\* C39: the subscriber counter of the presence monitor is never negative,
\* whatever events the socket delivers, so that a connect that is counted
\* always makes has_subscriber() true.
C39_CounterNotNegative ==
    /\ [](sub_count >= 0)
    /\ [][sub_count' > sub_count => sub_count' > 0]_vars

====
